---------------------------- MODULE Spec2Model ----------------------------
(***************************************************************************)
(* Property Bank P2P: the bank's rule engine (src/src/lib/rules.ts) and    *)
(* the bank screen's connection, join and broadcast layer                  *)
(* (src/unnamed/part_000, BankScreen).                                     *)
(*                                                                         *)
(* Representation.                                                         *)
(*  - A string that the code takes apart (a display name, a player key) is *)
(*    a sequence of one-character strings; "BANK" is the sequence BANK and *)
(*    the null owner / null connId is the empty sequence NULL (player keys *)
(*    and connection ids are never empty).                                 *)
(*  - A JavaScript number that comes from a text field is a record         *)
(*    [fin, twice]: fin = FALSE for NaN and +-Infinity, otherwise the      *)
(*    number is twice/2, so that halves exist and Math.round is computed.  *)
(*    Balances and inventory counts are integers.                          *)
(*  - An audit entry keeps type, from, to, note and the optional amount    *)
(*    and propertyId; its id (nanoid) and ts (clock) are left out.  A note *)
(*    built from a template is the pair <<template text, reason>>; the     *)
(*    Spanish texts are written without their accents.                     *)
(***************************************************************************)
EXTENDS Integers, Sequences, FiniteSets, TLC

---------------------------------------------------------------------------
(* Strings, numbers                                                        *)

BANK == <<"B", "A", "N", "K">>
NULL == << >>

Range(s) == {s[i] : i \in 1..Len(s)}
Max2(a, b) == IF a >= b THEN a ELSE b
Min2(a, b) == IF a <= b THEN a ELSE b
MaxOf(S) == CHOOSE x \in S : \A y \in S : y <= x
MinOf(S) == CHOOSE x \in S : \A y \in S : x <= y

Num(n) == [fin |-> TRUE, twice |-> 2 * n]
NaN == [fin |-> FALSE, twice |-> 0]

MONEY_LIMIT == 9999999

\* Math.round: the nearest integer, a half rounded towards +Infinity.
MathRound(x) == (x.twice + 1) \div 2

clampMoney_NoClamp(n) == IF ~n.fin THEN 0 ELSE MathRound(n)

clampMoney(n) ==
  IF ~n.fin THEN 0
  ELSE LET v == MathRound(n)
       IN  Max2(-MONEY_LIMIT, Min2(MONEY_LIMIT, v))

\* Math.floor(n / 2) and Math.ceil(n * 0.1) for integers n >= 0.  The IEEE
\* product n * 0.1 lies on the same side of every integer as n/10 for each
\* mortgage value of PROPERTY_DEFS (30 .. 200).
FloorHalf(n) == n \div 2
CeilTenth(n) == (n + 9) \div 10

---------------------------------------------------------------------------
(* properties.ts                                                           *)

Streets ==
  << <<"brown", 60>>, <<"brown", 60>>,
     <<"lightblue", 100>>, <<"lightblue", 100>>, <<"lightblue", 120>>,
     <<"pink", 140>>, <<"pink", 140>>, <<"pink", 160>>,
     <<"orange", 180>>, <<"orange", 180>>, <<"orange", 200>>,
     <<"red", 220>>, <<"red", 220>>, <<"red", 240>>,
     <<"yellow", 260>>, <<"yellow", 260>>, <<"yellow", 280>>,
     <<"green", 300>>, <<"green", 300>>, <<"green", 320>>,
     <<"blue", 350>>, <<"blue", 400>> >>

Digits == <<"0", "1", "2", "3", "4", "5", "6", "7", "8", "9">>
Digit(d) == Digits[d + 1]
\* String(i).padStart(2, "0") for 1 <= i <= 99
PadStart2(i) == Digit(i \div 10) \o Digit(i % 10)

PROPERTY_DEFS ==
  [i \in 1..Len(Streets) |->
     [id |-> "P" \o PadStart2(i), kind |-> "street",
      group |-> Streets[i][1], price |-> Streets[i][2]]]
  \o [i \in 1..4 |->
     [id |-> "T" \o Digit(i), kind |-> "rail",
      group |-> "neutral_black", price |-> 200]]
  \o [i \in 1..2 |->
     [id |-> "S" \o Digit(i), kind |-> "utility",
      group |-> "neutral_gray", price |-> 150]]

PropIds == {PROPERTY_DEFS[i].id : i \in 1..Len(PROPERTY_DEFS)}

\* BUILD_COST_BY_GROUP[g] ?? 0
BUILD_COST_BY_GROUP(g) ==
  CASE g \in {"brown", "lightblue"} -> 50
    [] g \in {"pink", "orange"} -> 100
    [] g \in {"red", "yellow"} -> 150
    [] g \in {"green", "blue"} -> 200
    [] OTHER -> 0

---------------------------------------------------------------------------
(* rules.ts: helpers                                                       *)

STARTING_CASH == 1500
HOUSES_INITIAL == 32
HOTELS_INITIAL == 12

makeGame ==
  [gameId |-> "GAME01",
   startingCash |-> STARTING_CASH,
   players |-> [k \in {} |-> 0],
   props |-> [p \in PropIds |->
                [id |-> p, owner |-> NULL, mortgaged |-> FALSE, buildings |-> 0]],
   tx |-> << >>,
   bank |-> [housesAvailable |-> HOUSES_INITIAL, hotelsAvailable |-> HOTELS_INITIAL],
   auctionQueue |-> << >>]

addTx_Replace(state, tx) == [state EXCEPT !.tx = <<tx>>]

addTx_Oldest(state, tx) == [state EXCEPT !.tx = state.tx \o <<tx>>]

addTx(state, tx) == [state EXCEPT !.tx = <<tx>> \o state.tx]

\* PROPERTY_DEFS.find((p) => p.id === propId); HasDef is "the result is defined"
HasDef(propId) == propId \in PropIds
DefById ==
  [p \in PropIds |->
     PROPERTY_DEFS[CHOOSE i \in 1..Len(PROPERTY_DEFS) : PROPERTY_DEFS[i].id = p]]
getDef(propId) == DefById[propId]

mortgageValue(propId) ==
  IF ~HasDef(propId) THEN 0 ELSE FloorHalf(getDef(propId).price)

groupOf(propId) == IF HasDef(propId) THEN getDef(propId).group ELSE "null"

Groups == {PROPERTY_DEFS[i].group : i \in 1..Len(PROPERTY_DEFS)}
\* the ids of the group's streets, in the order of PROPERTY_DEFS
GroupStreets ==
  [g \in Groups |->
     SelectSeq([i \in 1..Len(PROPERTY_DEFS) |-> PROPERTY_DEFS[i].id],
               LAMBDA id : DefById[id].group = g /\ DefById[id].kind = "street")]
groupProps(group) == GroupStreets[group]

ownsFullGroup(state, owner, group) ==
  LET ids == groupProps(group)
  IN  IF Len(ids) = 0 THEN FALSE
      ELSE \A i \in 1..Len(ids) : state.props[ids[i]].owner = owner

HasProp(state, propId) == propId \in DOMAIN state.props
HasPlayer(state, key) == key \in DOMAIN state.players

---------------------------------------------------------------------------
(* rules.ts: mortgage                                                      *)

Fail(reason) == [ok |-> FALSE, reason |-> reason]

canMortgage(state, propId) ==
  IF ~HasProp(state, propId) THEN Fail("Propiedad inexistente")
  ELSE LET ps == state.props[propId]
       IN  IF ps.owner = NULL THEN Fail("Sin dueno")
           ELSE IF ps.mortgaged THEN Fail("Ya esta hipotecada")
           ELSE IF ~HasDef(propId) THEN Fail("Definicion invalida")
           ELSE IF getDef(propId).kind = "street"
                THEN LET ids == groupProps(groupOf(propId))
                     IN  IF \E i \in 1..Len(ids) : state.props[ids[i]].buildings > 0
                         THEN Fail("Primero vende todos los edificios del grupo (regla oficial)")
                         ELSE [ok |-> TRUE]
                ELSE IF ps.buildings > 0 THEN Fail("No deberia tener edificios")
                     ELSE [ok |-> TRUE]

\* line 126 reads state.players[owner].balance: a TypeError when the owner is
\* no key of the player map
doMortgageRaises(state, propId) ==
  /\ canMortgage(state, propId).ok
  /\ ~HasPlayer(state, state.props[propId].owner)

MortgageApplied(state, propId) ==
  LET ps == state.props[propId]
      owner == ps.owner
      mv == mortgageValue(propId)
      next == [state EXCEPT
                 !.props[propId].mortgaged = TRUE,
                 !.players[owner].balance = clampMoney(Num(@ + mv))]
  IN  addTx(next, [type |-> "mortgage", from |-> BANK, to |-> owner,
                   amount |-> Num(mv), propertyId |-> propId,
                   note |-> <<"Hipoteca", "">>])

doMortgage_Unchecked(state, propId) ==
  IF HasProp(state, propId) /\ HasPlayer(state, state.props[propId].owner)
  THEN MortgageApplied(state, propId)
  ELSE addTx(state, [type |-> "mortgage", from |-> BANK, to |-> BANK,
                     note |-> <<"Hipoteca fallida: ", "">>, propertyId |-> propId])

doMortgage(state, propId) ==
  LET chk == canMortgage(state, propId)
  IN  IF ~chk.ok
      THEN addTx(state, [type |-> "mortgage", from |-> BANK, to |-> BANK,
                         note |-> <<"Hipoteca fallida: ", chk.reason>>,
                         propertyId |-> propId])
      ELSE MortgageApplied(state, propId)

\* line 149 reads state.players[owner].balance
canUnmortgageRaises(state, propId) ==
  /\ HasProp(state, propId)
  /\ state.props[propId].owner # NULL
  /\ state.props[propId].mortgaged
  /\ ~HasPlayer(state, state.props[propId].owner)

canUnmortgage_NoInterest(state, propId) ==
  IF ~HasProp(state, propId) THEN Fail("Propiedad inexistente")
  ELSE LET ps == state.props[propId]
       IN  IF ps.owner = NULL THEN Fail("Sin dueno")
           ELSE IF ~ps.mortgaged THEN Fail("No esta hipotecada")
           ELSE LET mv == mortgageValue(propId)
                IN  IF state.players[ps.owner].balance < mv
                    THEN Fail("Saldo insuficiente para levantar hipoteca")
                    ELSE [ok |-> TRUE, cost |-> mv]

canUnmortgage(state, propId) ==
  IF ~HasProp(state, propId) THEN Fail("Propiedad inexistente")
  ELSE LET ps == state.props[propId]
       IN  IF ps.owner = NULL THEN Fail("Sin dueno")
           ELSE IF ~ps.mortgaged THEN Fail("No esta hipotecada")
           ELSE LET mv == mortgageValue(propId)
                    cost == mv + CeilTenth(mv)
                IN  IF state.players[ps.owner].balance < cost
                    THEN Fail("Saldo insuficiente para levantar hipoteca")
                    ELSE [ok |-> TRUE, cost |-> cost]

doUnmortgageRaises(state, propId) == canUnmortgageRaises(state, propId)

doUnmortgage(state, propId) ==
  LET chk == canUnmortgage(state, propId)
  IN  IF ~chk.ok
      THEN addTx(state, [type |-> "unmortgage", from |-> BANK, to |-> BANK,
                         note |-> <<"Levantar hipoteca fallo: ", chk.reason>>,
                         propertyId |-> propId])
      ELSE LET owner == state.props[propId].owner
               next == [state EXCEPT
                          !.props[propId].mortgaged = FALSE,
                          !.players[owner].balance = clampMoney(Num(@ - chk.cost))]
           IN  addTx(next, [type |-> "unmortgage", from |-> owner, to |-> BANK,
                            amount |-> Num(chk.cost), propertyId |-> propId,
                            note |-> <<"Levantar hipoteca (+10% interes)", "">>])

---------------------------------------------------------------------------
(* rules.ts: build, sell                                                   *)

GroupLevels(state, ids) == {state.props[ids[i]].buildings : i \in 1..Len(ids)}

canBuildHouse_NoMortgageCheck(state, propId) ==
  IF ~HasDef(propId) \/ ~HasProp(state, propId) THEN Fail("Propiedad invalida")
  ELSE LET def == getDef(propId)
           ps == state.props[propId]
           g == def.group
           ids == groupProps(g)
           cost == BUILD_COST_BY_GROUP(g)
       IN  IF def.kind # "street" THEN Fail("Solo terrenos admiten casas/hotel")
           ELSE IF ps.owner = NULL THEN Fail("Sin dueno")
           ELSE IF ~ownsFullGroup(state, ps.owner, g) THEN Fail("Debe tener el grupo completo")
           ELSE IF ps.buildings >= 5 THEN Fail("Ya tiene hotel")
           ELSE IF ps.buildings # MinOf(GroupLevels(state, ids))
                THEN Fail("Construccion pareja: construi primero en las mas bajas")
           ELSE IF ps.buildings = 4 /\ state.bank.hotelsAvailable <= 0 THEN Fail("Banco sin hoteles")
           ELSE IF ps.buildings # 4 /\ state.bank.housesAvailable <= 0 THEN Fail("Banco sin casas")
           ELSE IF cost <= 0 THEN Fail("Costo no definido")
           ELSE IF state.players[ps.owner].balance < cost THEN Fail("Saldo insuficiente")
           ELSE [ok |-> TRUE, cost |-> cost]

\* the checks of canBuildHouse that come before line 220 all pass
ReachesBuildBalanceCheck(state, propId) ==
  /\ HasDef(propId) /\ HasProp(state, propId)
  /\ LET def == getDef(propId)
         ps == state.props[propId]
         g == def.group
         ids == groupProps(g)
     IN  /\ def.kind = "street"
         /\ ps.owner # NULL
         /\ ~ps.mortgaged
         /\ ownsFullGroup(state, ps.owner, g)
         /\ \A i \in 1..Len(ids) : ~state.props[ids[i]].mortgaged
         /\ ps.buildings < 5
         /\ ps.buildings = MinOf(GroupLevels(state, ids))
         /\ IF ps.buildings = 4 THEN state.bank.hotelsAvailable > 0
                                ELSE state.bank.housesAvailable > 0
         /\ BUILD_COST_BY_GROUP(g) > 0

\* line 220 reads state.players[ps.owner].balance
canBuildHouseRaises(state, propId) ==
  /\ ReachesBuildBalanceCheck(state, propId)
  /\ ~HasPlayer(state, state.props[propId].owner)

canBuildHouse(state, propId) ==
  IF ~HasDef(propId) \/ ~HasProp(state, propId) THEN Fail("Propiedad invalida")
  ELSE LET def == getDef(propId)
           ps == state.props[propId]
           g == def.group
           ids == groupProps(g)
           cost == BUILD_COST_BY_GROUP(g)
       IN  IF def.kind # "street" THEN Fail("Solo terrenos admiten casas/hotel")
           ELSE IF ps.owner = NULL THEN Fail("Sin dueno")
           ELSE IF ps.mortgaged THEN Fail("No se construye en hipotecada")
           ELSE IF ~ownsFullGroup(state, ps.owner, g) THEN Fail("Debe tener el grupo completo")
           ELSE IF \E i \in 1..Len(ids) : state.props[ids[i]].mortgaged
                THEN Fail("No se construye si alguna del grupo esta hipotecada")
           ELSE IF ps.buildings >= 5 THEN Fail("Ya tiene hotel")
           ELSE IF ps.buildings # MinOf(GroupLevels(state, ids))
                THEN Fail("Construccion pareja: construi primero en las mas bajas")
           ELSE IF ps.buildings = 4 /\ state.bank.hotelsAvailable <= 0 THEN Fail("Banco sin hoteles")
           ELSE IF ps.buildings # 4 /\ state.bank.housesAvailable <= 0 THEN Fail("Banco sin casas")
           ELSE IF cost <= 0 THEN Fail("Costo no definido")
           ELSE IF state.players[ps.owner].balance < cost THEN Fail("Saldo insuficiente")
           ELSE [ok |-> TRUE, cost |-> cost]

doBuildRaises(state, propId) == canBuildHouseRaises(state, propId)

doBuild_HotelKeepsHouses(state, propId) ==
  LET chk == canBuildHouse(state, propId)
  IN  IF ~chk.ok
      THEN addTx(state, [type |-> "build", from |-> BANK, to |-> BANK,
                         note |-> <<"Build fallo: ", chk.reason>>,
                         propertyId |-> propId])
      ELSE LET ps == state.props[propId]
               owner == ps.owner
               nextBuildings == ps.buildings + 1
               bankNext ==
                 IF ps.buildings = 4
                 THEN [state.bank EXCEPT !.hotelsAvailable = @ - 1]
                 ELSE [state.bank EXCEPT !.housesAvailable = @ - 1]
               next == [state EXCEPT
                          !.bank = bankNext,
                          !.props[propId].buildings = nextBuildings,
                          !.players[owner].balance = clampMoney(Num(@ - chk.cost))]
           IN  addTx(next, [type |-> "build", from |-> owner, to |-> BANK,
                            amount |-> Num(chk.cost), propertyId |-> propId,
                            note |-> <<IF nextBuildings = 5 THEN "Compra de hotel"
                                       ELSE "Compra de casa", "">>])

doBuild(state, propId) ==
  LET chk == canBuildHouse(state, propId)
  IN  IF ~chk.ok
      THEN addTx(state, [type |-> "build", from |-> BANK, to |-> BANK,
                         note |-> <<"Build fallo: ", chk.reason>>,
                         propertyId |-> propId])
      ELSE LET ps == state.props[propId]
               owner == ps.owner
               nextBuildings == ps.buildings + 1
               bankNext ==
                 IF ps.buildings = 4
                 THEN [state.bank EXCEPT !.hotelsAvailable = @ - 1,
                                         !.housesAvailable = @ + 4]
                 ELSE [state.bank EXCEPT !.housesAvailable = @ - 1]
               next == [state EXCEPT
                          !.bank = bankNext,
                          !.props[propId].buildings = nextBuildings,
                          !.players[owner].balance = clampMoney(Num(@ - chk.cost))]
           IN  addTx(next, [type |-> "build", from |-> owner, to |-> BANK,
                            amount |-> Num(chk.cost), propertyId |-> propId,
                            note |-> <<IF nextBuildings = 5 THEN "Compra de hotel"
                                       ELSE "Compra de casa", "">>])

canSellBuilding_AnyLevel(state, propId) ==
  IF ~HasDef(propId) \/ ~HasProp(state, propId) THEN Fail("Propiedad invalida")
  ELSE LET def == getDef(propId)
           ps == state.props[propId]
       IN  IF def.kind # "street" THEN Fail("Solo terrenos")
           ELSE IF ps.owner = NULL THEN Fail("Sin dueno")
           ELSE IF ps.buildings <= 0 THEN Fail("No hay edificios para vender")
           ELSE [ok |-> TRUE, value |-> FloorHalf(BUILD_COST_BY_GROUP(def.group))]

canSellBuilding(state, propId) ==
  IF ~HasDef(propId) \/ ~HasProp(state, propId) THEN Fail("Propiedad invalida")
  ELSE LET def == getDef(propId)
           ps == state.props[propId]
           g == def.group
           ids == groupProps(g)
       IN  IF def.kind # "street" THEN Fail("Solo terrenos")
           ELSE IF ps.owner = NULL THEN Fail("Sin dueno")
           ELSE IF ps.buildings <= 0 THEN Fail("No hay edificios para vender")
           ELSE IF ps.buildings # MaxOf(GroupLevels(state, ids))
                THEN Fail("Venta pareja: vende primero de las mas altas")
           ELSE [ok |-> TRUE, value |-> FloorHalf(BUILD_COST_BY_GROUP(g))]

\* line 315 reads state.players[owner].balance
doSellBuildingRaises(state, propId) ==
  /\ canSellBuilding(state, propId).ok
  /\ ~HasPlayer(state, state.props[propId].owner)

doSellBuilding(state, propId) ==
  LET chk == canSellBuilding(state, propId)
  IN  IF ~chk.ok
      THEN addTx(state, [type |-> "sell_build", from |-> BANK, to |-> BANK,
                         note |-> <<"Venta fallo: ", chk.reason>>,
                         propertyId |-> propId])
      ELSE LET ps == state.props[propId]
               owner == ps.owner
               bankNext ==
                 IF ps.buildings = 5
                 THEN [state.bank EXCEPT !.hotelsAvailable = @ + 1,
                                         !.housesAvailable = Max2(0, @ - 4)]
                 ELSE [state.bank EXCEPT !.housesAvailable = @ + 1]
               next == [state EXCEPT
                          !.bank = bankNext,
                          !.props[propId].buildings = ps.buildings - 1,
                          !.players[owner].balance = clampMoney(Num(@ + chk.value))]
           IN  addTx(next, [type |-> "sell_build", from |-> BANK, to |-> owner,
                            amount |-> Num(chk.value), propertyId |-> propId,
                            note |-> <<"Venta de edificio (Banco paga la mitad)", "">>])

---------------------------------------------------------------------------
(* rules.ts: transfers                                                     *)

transferCash_NoZeroCheck(state, from, to, amount, note) ==
  LET amt == clampMoney(amount)
  IN  IF from # BANK /\ ~HasPlayer(state, from) THEN state
      ELSE LET p1 == IF from # BANK
                     THEN [state.players EXCEPT
                             ![from].balance = clampMoney(Num(@ - amt))]
                     ELSE state.players
           IN  IF to # BANK /\ to \notin DOMAIN p1 THEN state
               ELSE LET p2 == IF to # BANK
                              THEN [p1 EXCEPT ![to].balance = clampMoney(Num(@ + amt))]
                              ELSE p1
                        next == [state EXCEPT !.players = p2]
                    IN  addTx(next, [type |-> "cash", from |-> from, to |-> to,
                                     amount |-> Num(amt), note |-> note])

transferCash_NoDebit(state, from, to, amount, note) ==
  LET amt == clampMoney(amount)
  IN  IF amt = 0 THEN state
      ELSE IF from # BANK /\ ~HasPlayer(state, from) THEN state
      ELSE IF to # BANK /\ ~HasPlayer(state, to) THEN state
      ELSE LET p2 == IF to # BANK
                     THEN [state.players EXCEPT
                             ![to].balance = clampMoney(Num(@ + amt))]
                     ELSE state.players
               next == [state EXCEPT !.players = p2]
           IN  addTx(next, [type |-> "cash", from |-> from, to |-> to,
                            amount |-> Num(amt), note |-> note])

transferCash(state, from, to, amount, note) ==
  LET amt == clampMoney(amount)
  IN  IF amt = 0 THEN state
      ELSE IF from # BANK /\ ~HasPlayer(state, from) THEN state
      ELSE LET p1 == IF from # BANK
                     THEN [state.players EXCEPT
                             ![from].balance = clampMoney(Num(@ - amt))]
                     ELSE state.players
           IN  IF to # BANK /\ to \notin DOMAIN p1 THEN state
               ELSE LET p2 == IF to # BANK
                              THEN [p1 EXCEPT ![to].balance = clampMoney(Num(@ + amt))]
                              ELSE p1
                        next == [state EXCEPT !.players = p2]
                    IN  addTx(next, [type |-> "cash", from |-> from, to |-> to,
                                     amount |-> Num(amt), note |-> note])

\* to = NULL is the bank; ps.owner ?? "BANK" and to ?? "BANK"
transferProperty(state, propId, to, note) ==
  IF ~HasProp(state, propId) THEN state
  ELSE LET ps == state.props[propId]
           next == [state EXCEPT !.props[propId].owner = to]
       IN  addTx(next, [type |-> "property_transfer",
                        from |-> IF ps.owner = NULL THEN BANK ELSE ps.owner,
                        to |-> IF to = NULL THEN BANK ELSE to,
                        propertyId |-> propId, note |-> note])

---------------------------------------------------------------------------
(* rules.ts: bankruptcy, auction                                           *)

\* lines 380-397, from the i-th definition on: one doSellBuilding per street
\* of the debtor that has buildings (the while loop ends in break), the
\* payout passed on to the creditor
\* lines 388-394: the payout of the sale s -> s1 goes on to the creditor
PassPayout(s, s1, debtor, creditor) ==
  LET delta == s1.players[debtor].balance - s.players[debtor].balance
  IN  IF delta > 0
      THEN transferCash(s1, debtor, creditor, Num(delta),
                        <<"Liquidacion por bancarrota (edificios)", "">>)
      ELSE s1

RECURSIVE SellDebtorBuildings(_, _, _, _)
SellDebtorBuildings(s, debtor, creditor, i) ==
  IF i > Len(PROPERTY_DEFS) THEN s
  ELSE IF \/ s.props[PROPERTY_DEFS[i].id].owner # debtor
          \/ PROPERTY_DEFS[i].kind # "street"
          \/ s.props[PROPERTY_DEFS[i].id].buildings <= 0
       THEN SellDebtorBuildings(s, debtor, creditor, i + 1)
       ELSE SellDebtorBuildings(
              PassPayout(s, doSellBuilding(s, PROPERTY_DEFS[i].id), debtor, creditor),
              debtor, creditor, i + 1)

\* lines 407-410: the creditor pays 10% of the mortgage value at once
PayInterest(s1, id, creditor) ==
  transferCash(s1, creditor, BANK, Num(CeilTenth(mortgageValue(id))),
               <<"Interes 10% por recibir propiedad hipotecada", "">>)

\* lines 404-410, for one property of the debtor
TransferOne(s, id, creditor) ==
  IF s.props[id].mortgaged
  THEN PayInterest(transferProperty(s, id, creditor,
                                    <<"Transferencia por bancarrota", "">>),
                   id, creditor)
  ELSE transferProperty(s, id, creditor, <<"Transferencia por bancarrota", "">>)

\* lines 400-411, from the i-th definition on
RECURSIVE TransferDebtorProps(_, _, _, _)
TransferDebtorProps(s, debtor, creditor, i) ==
  IF i > Len(PROPERTY_DEFS) THEN s
  ELSE IF s.props[PROPERTY_DEFS[i].id].owner # debtor
       THEN TransferDebtorProps(s, debtor, creditor, i + 1)
       ELSE TransferDebtorProps(TransferOne(s, PROPERTY_DEFS[i].id, creditor),
                                debtor, creditor, i + 1)

\* lines 414-417
TransferCashLeft_Skip(s, debtor, creditor) == s

TransferCashLeft(s, debtor, creditor) ==
  IF s.players[debtor].balance # 0
  THEN transferCash(s, debtor, creditor, Num(s.players[debtor].balance),
                    <<"Transferencia de efectivo por bancarrota", "">>)
  ELSE s

\* lines 420-422
RemovePlayer(s, debtor) ==
  [s EXCEPT !.players = [k \in DOMAIN s.players \ {debtor} |-> s.players[k]]]

declareBankruptcyToPlayer(state, debtor, creditor) ==
  IF ~HasPlayer(state, debtor) \/ ~HasPlayer(state, creditor) THEN state
  ELSE addTx(RemovePlayer(
               TransferCashLeft(
                 TransferDebtorProps(
                   SellDebtorBuildings(state, debtor, creditor, 1),
                   debtor, creditor, 1),
                 debtor, creditor),
               debtor),
             [type |-> "bankruptcy_player", from |-> debtor, to |-> creditor,
              note |-> <<"Bancarrota: ", "">>])

\* lines 446-454: the debtor's streets lose their buildings, nothing is paid
ZeroDebtorBuildings(s, debtor) ==
  [s EXCEPT !.props =
     [p \in DOMAIN s.props |->
        IF s.props[p].owner = debtor /\ getDef(p).kind = "street"
           /\ s.props[p].buildings > 0
        THEN [s.props[p] EXCEPT !.buildings = 0]
        ELSE s.props[p]]]

\* lines 457-471, from the i-th definition on: q is the queue being built
RECURSIVE QueueDebtorProps(_, _, _, _)
QueueDebtorProps(s, q, debtor, i) ==
  IF i > Len(PROPERTY_DEFS) THEN [s EXCEPT !.auctionQueue = q]
  ELSE LET id == PROPERTY_DEFS[i].id
       IN  IF s.props[id].owner # debtor
           THEN QueueDebtorProps(s, q, debtor, i + 1)
           ELSE QueueDebtorProps(
                  [s EXCEPT !.props[id].owner = NULL, !.props[id].mortgaged = FALSE],
                  Append(q, id), debtor, i + 1)

declareBankruptcyToBank(state, debtor) ==
  IF ~HasPlayer(state, debtor) THEN state
  ELSE LET s1 == ZeroDebtorBuildings(state, debtor)
           s2 == QueueDebtorProps(s1, s1.auctionQueue, debtor, 1)
           s3 == RemovePlayer(s2, debtor)
       IN  addTx(s3, [type |-> "bankruptcy_bank", from |-> debtor, to |-> BANK,
                      note |-> <<"Bancarrota al Banco. Propiedades a subasta: ", "">>])

auctionSellTo(state, propId, winner, price) ==
  IF ~HasProp(state, propId) THEN state
  ELSE IF ~HasPlayer(state, winner) THEN state
  ELSE LET s1 == transferCash(state, winner, BANK, price,
                   <<"Subasta (pago al Banco)", "">>)
           s2 == [s1 EXCEPT
                    !.props[propId].owner = winner,
                    !.props[propId].mortgaged = FALSE,
                    !.props[propId].buildings = 0,
                    !.auctionQueue = SelectSeq(s1.auctionQueue, LAMBDA id : id # propId)]
       IN  addTx(s2, [type |-> "auction", from |-> BANK, to |-> winner,
                      amount |-> price, propertyId |-> propId,
                      note |-> <<"Subasta (asignacion)", "">>])

---------------------------------------------------------------------------
(* rules.ts: normalizeName; part_000: acceptJoin's update of the state     *)

UpperLetters == <<"A", "B", "L", "O", "T", "U", "E">>
LowerLetters == <<"a", "b", "l", "o", "t", "u", "e">>
toLowerCase(c) ==
  IF \E i \in 1..Len(UpperLetters) : UpperLetters[i] = c
  THEN LowerLetters[CHOOSE i \in 1..Len(UpperLetters) : UpperLetters[i] = c]
  ELSE c

IsSpace(c) == c = " "

RECURSIVE trimStart(_)
trimStart(s) ==
  IF Len(s) > 0 /\ IsSpace(s[1]) THEN trimStart(Tail(s)) ELSE s

RECURSIVE trimEnd(_)
trimEnd(s) ==
  IF Len(s) > 0 /\ IsSpace(s[Len(s)]) THEN trimEnd(SubSeq(s, 1, Len(s) - 1)) ELSE s

trim(s) == trimEnd(trimStart(s))

\* replace(/\s+/g, " "): every run of white space becomes one space
RECURSIVE collapseSpaces(_)
collapseSpaces(s) ==
  IF Len(s) = 0 THEN s
  ELSE IF IsSpace(s[1])
       THEN <<" ">> \o collapseSpaces(trimStart(s))
       ELSE <<s[1]>> \o collapseSpaces(Tail(s))

normalizeName(name) ==
  LET t == collapseSpaces(trim(name))
  IN  [i \in 1..Len(t) |-> toLowerCase(t[i])]

\* String(n) for 0 <= n <= 99
NumberText(n) == IF n < 10 THEN <<Digit(n)>> ELSE <<Digit(n \div 10), Digit(n % 10)>>

\* lines 333-338: the first of key, key 2, key 3, ... that is no key of players
UniqueKey_Same(players, key, unique, n) == key

RECURSIVE UniqueKey(_, _, _, _)
UniqueKey(players, key, unique, n) ==
  IF unique \in DOMAIN players
  THEN UniqueKey(players, key, key \o <<" ">> \o NumberText(n), n + 1)
  ELSE unique

NewPlayer(key, name, connId, balance) ==
  [key |-> key, name |-> name, connId |-> connId, connected |-> TRUE,
   balance |-> balance]

WithPlayer(cur, key, player) ==
  [cur EXCEPT !.players =
     [k \in DOMAIN cur.players \cup {key} |->
        IF k = key THEN player ELSE cur.players[k]]]

\* the function acceptJoin hands to mutate (lines 310-347)
acceptJoinUpdate_RejoinFresh(cur, req) ==
  LET key == normalizeName(req.name)
  IN  IF req.kind = "duplicate"
      THEN LET unique == UniqueKey(cur.players, key, key, 2)
           IN  WithPlayer(cur, unique,
                          NewPlayer(unique, unique, req.connId, cur.startingCash))
      ELSE WithPlayer(cur, key, NewPlayer(key, req.name, req.connId, cur.startingCash))

acceptJoinUpdate(cur, req) ==
  LET key == normalizeName(req.name)
  IN  IF req.kind = "new"
      THEN WithPlayer(cur, key, NewPlayer(key, req.name, req.connId, cur.startingCash))
      ELSE IF req.kind = "rejoin"
      THEN IF key \notin DOMAIN cur.players THEN cur
           ELSE WithPlayer(cur, key,
                  [cur.players[key] EXCEPT !.connId = req.connId,
                                           !.connected = TRUE,
                                           !.name = req.name])
      ELSE LET unique == UniqueKey(cur.players, key, key, 2)
           IN  WithPlayer(cur, unique,
                          NewPlayer(unique, unique, req.connId, cur.startingCash))

\* lines 227-242: how an inbound HELLO is classified
helloKind_NoRejoin(cur, key) ==
  IF key \notin DOMAIN cur.players THEN "new" ELSE "duplicate"

helloKind(cur, key) ==
  IF key \notin DOMAIN cur.players THEN "new"
  ELSE IF cur.players[key].connected THEN "duplicate"
  ELSE "rejoin"

\* lines 264-272: the players bound to connId go offline
closeUpdate_AllOffline(cur, connId) ==
  [cur EXCEPT !.players =
     [k \in DOMAIN cur.players |->
        [cur.players[k] EXCEPT !.connId = NULL, !.connected = FALSE]]]

closeUpdate(cur, connId) ==
  [cur EXCEPT !.players =
     [k \in DOMAIN cur.players |->
        IF cur.players[k].connId = connId
        THEN [cur.players[k] EXCEPT !.connId = NULL, !.connected = FALSE]
        ELSE cur.players[k]]]

---------------------------------------------------------------------------
(* part_000: BankScreen                                                    *)

MaxMsgs == 2
MaxOps == 2
NetOps == 1

VARIABLES
  state,        \* GameState | null (NoGame)
  conns,        \* the registry: connId -> [status, seen]; seen is the registry
                \* (connId -> status) of the render in which the connection was
                \* offered, the one its transport handlers' broadcastState reads
  peer,         \* the transport of every connection ever offered: its phase
                \* ("new", "signaled", "answered", "open", "closed") and the
                \* number of remote descriptions handed to it
  pendingJoin,  \* the join requests waiting for the operator
  outbox,       \* connId -> the messages handed to that open channel, in order
  raised,       \* "no"; "render": an exception left a state updater and React
                \* unmounted the tree; "handler": an exception left an event
                \* handler of the transport
  ui,           \* the values held by the select boxes of the operator's
                \* panels (React state of BankPlayers, BankProperties,
                \* BankBankruptcy and BankAuctions)
  last,         \* the handler that ran last, with its arguments
  budget        \* [rule, msg]: operator actions and inbound messages still
                \* explored

vars == <<state, conns, peer, pendingJoin, outbox, raised, ui, last, budget>>

NoGame == [null |-> TRUE]
HasGame == state # NoGame

\* nanoid(10) draws the connection ids from this pool
ConnIdPool == {<<"c", "1">>, <<"c", "2">>}

NoArgs == [a |-> NULL, b |-> NULL, propId |-> "", amount |-> NaN, connId |-> NULL]
Did(op, args) ==
  [a |-> args.a, b |-> args.b, propId |-> args.propId, amount |-> args.amount,
   connId |-> args.connId, op |-> op]

\* the panels as they mount: "Desde" and "Hacia" on BANCO (line 481-482),
\* "Nuevo dueno" on BANCO (line 559), the others on the first option there
\* is, NULL when there is none (lines 711-712, 785-786)
EmptyUi ==
  [from |-> BANK, to |-> BANK, owner |-> NULL, debtor |-> NULL,
   creditor |-> NULL, aucProp |-> "", winner |-> NULL]

\* a select box holds x after the operator picked it among the options shown,
\* or because it held x already
Holds(held, options, x) == x \in options \/ x = held

View == [c \in DOMAIN conns |-> conns[c].status]

StateMsg(next) == [t |-> "STATE", state |-> next]

\* safeSend: peer.send throws unless the channel is open, and the throw is
\* swallowed
safeSend(box, c, msg) ==
  IF c \in DOMAIN peer /\ peer[c].phase = "open"
  THEN [box EXCEPT ![c] = Append(@, msg)]
  ELSE box

\* lines 139-146, with the registry `view` of the render the caller closed over
broadcastState(view, next) ==
  [c \in DOMAIN outbox |->
     IF c \in DOMAIN view /\ view[c] = "connected" /\ peer[c].phase = "open"
     THEN Append(outbox[c], StateMsg(next))
     ELSE outbox[c]]

Alive == raised # "render"

mutate_SendsPrevious(next) ==
  /\ state' = next
  /\ outbox' = broadcastState(View, state)

\* lines 148-155; the caller is an operator's handler of the current render
mutate(next) ==
  /\ state' = next
  /\ outbox' = broadcastState(View, next)

\* an updater threw: React unmounts the tree, the state is what it was
Crash ==
  /\ raised' = "render"
  /\ UNCHANGED <<state, outbox>>

---------------------------------------------------------------------------
(* part_000: the operator's panels.  An operator action is a record        *)
(* Did(op, args): the rule it calls and what the panel's fields hold.      *)

Plain(text) == <<text, "">>
Keys(st) == IF st = [null |-> TRUE] THEN {} ELSE DOMAIN st.players

\* what the panel lets through: what its select boxes can hold and the
\* disabled condition of its button
OpGuard(u, st, o) ==
  CASE o.op = "transferCash" ->
         \* BankPlayers, lines 516-517; the effect of lines 486-488 moves
         \* "Hacia" off BANCO as soon as a player exists
         /\ Holds(u.from, Keys(st) \cup {BANK}, o.a)
         /\ Holds(u.to, Keys(st) \cup {BANK}, o.b)
         /\ o.b = BANK => Keys(st) = {}
    [] o.op = "transferProperty" ->
         \* BankProperties, line 591
         o.propId \in PropIds /\ Holds(u.owner, Keys(st) \cup {NULL}, o.a)
    [] o.op = "doMortgage" ->
         \* BankBuildMortgage, line 670
         /\ o.propId \in PropIds
         /\ st.props[o.propId].owner # NULL /\ ~st.props[o.propId].mortgaged
    [] o.op = "doUnmortgage" ->
         \* line 676
         /\ o.propId \in PropIds
         /\ st.props[o.propId].owner # NULL /\ st.props[o.propId].mortgaged
    [] o.op = "doBuild" ->
         \* line 688
         /\ o.propId \in PropIds
         /\ getDef(o.propId).kind = "street" /\ st.props[o.propId].owner # NULL
    [] o.op = "doSellBuilding" ->
         \* line 694
         /\ o.propId \in PropIds
         /\ getDef(o.propId).kind = "street" /\ st.props[o.propId].owner # NULL
         /\ st.props[o.propId].buildings > 0
    [] o.op = "declareBankruptcyToPlayer" ->
         \* BankBankruptcy, line 748
         /\ Holds(u.debtor, Keys(st), o.a) /\ Holds(u.creditor, Keys(st), o.b)
         /\ o.a # NULL /\ o.b # NULL /\ o.a # o.b
    [] o.op = "declareBankruptcyToBank" ->
         \* line 762
         Holds(u.debtor, Keys(st), o.a) /\ o.a # NULL
    [] o.op = "auctionSellTo" ->
         \* BankAuctions, lines 793-801 and 832: the button is there while the
         \* queue is not empty; the price is finite and > 0
         /\ Len(st.auctionQueue) > 0
         /\ Holds(u.aucProp, Range(st.auctionQueue), o.propId) /\ o.propId # ""
         /\ Holds(u.winner, Keys(st), o.a) /\ o.a # NULL
         /\ o.amount.fin /\ o.amount.twice > 0
    [] o.op = "acceptJoin" ->
         \* lines 217-222 and 299-310: the name of a HELLO that was queued
         trim(o.a) # << >>
    [] OTHER -> FALSE

\* the select boxes after the operator set them for o
UiAfter(u, o) ==
  CASE o.op = "transferCash" -> [u EXCEPT !.from = o.a, !.to = o.b]
    [] o.op = "transferProperty" -> [u EXCEPT !.owner = o.a]
    [] o.op = "declareBankruptcyToPlayer" -> [u EXCEPT !.debtor = o.a, !.creditor = o.b]
    [] o.op = "declareBankruptcyToBank" -> [u EXCEPT !.debtor = o.a]
    [] o.op = "auctionSellTo" -> [u EXCEPT !.aucProp = o.propId, !.winner = o.a]
    [] OTHER -> u

\* the rule throws (a TypeError inside the updater)
OpRaises(st, o) ==
  CASE o.op = "doMortgage" -> doMortgageRaises(st, o.propId)
    [] o.op = "doUnmortgage" -> doUnmortgageRaises(st, o.propId)
    [] o.op = "doBuild" -> doBuildRaises(st, o.propId)
    [] o.op = "doSellBuilding" -> doSellBuildingRaises(st, o.propId)
    [] OTHER -> FALSE

\* the function the panel hands to mutate
OpApply(st, o) ==
  CASE o.op = "transferCash" ->
         transferCash(st, o.a, o.b, o.amount, Plain("Transferencia"))
    [] o.op = "transferProperty" ->
         transferProperty(st, o.propId, o.a, Plain("Asignacion"))
    [] o.op = "doMortgage" -> doMortgage(st, o.propId)
    [] o.op = "doUnmortgage" -> doUnmortgage(st, o.propId)
    [] o.op = "doBuild" -> doBuild(st, o.propId)
    [] o.op = "doSellBuilding" -> doSellBuilding(st, o.propId)
    [] o.op = "declareBankruptcyToPlayer" -> declareBankruptcyToPlayer(st, o.a, o.b)
    [] o.op = "declareBankruptcyToBank" -> declareBankruptcyToBank(st, o.a)
    [] o.op = "auctionSellTo" -> auctionSellTo(st, o.propId, o.a, o.amount)
    [] o.op = "acceptJoin" ->
         acceptJoinUpdate(st, [connId |-> o.connId, name |-> trim(o.a),
                               kind |-> helloKind(st, normalizeName(trim(o.a)))])

\* the operator presses the button: mutate(fn), fn the rule applied to cur
Operate(o) ==
  /\ Alive /\ HasGame
  /\ budget.rule > 0
  /\ OpGuard(ui, state, o)
  /\ budget' = [budget EXCEPT !.rule = @ - 1]
  /\ last' = o
  /\ ui' = UiAfter(ui, o)
  /\ IF OpRaises(state, o)
     THEN Crash
     ELSE mutate(OpApply(state, o)) /\ UNCHANGED raised
  /\ UNCHANGED <<conns, peer, pendingJoin>>

opTransferCash(from, to, amount) ==
  Did("transferCash", [NoArgs EXCEPT !.a = from, !.b = to, !.amount = amount])
opTransferProperty(propId, owner) ==
  Did("transferProperty", [NoArgs EXCEPT !.propId = propId, !.a = owner])
opMortgage(propId) == Did("doMortgage", [NoArgs EXCEPT !.propId = propId])
opUnmortgage(propId) == Did("doUnmortgage", [NoArgs EXCEPT !.propId = propId])
opBuild(propId) == Did("doBuild", [NoArgs EXCEPT !.propId = propId])
opSellBuilding(propId) == Did("doSellBuilding", [NoArgs EXCEPT !.propId = propId])
opBankruptcyToPlayer(debtor, creditor) ==
  Did("declareBankruptcyToPlayer", [NoArgs EXCEPT !.a = debtor, !.b = creditor])
opBankruptcyToBank(debtor) ==
  Did("declareBankruptcyToBank", [NoArgs EXCEPT !.a = debtor])
opAuction(propId, winner, price) ==
  Did("auctionSellTo",
      [NoArgs EXCEPT !.propId = propId, !.a = winner, !.amount = price])
opAcceptJoin(connId, name) ==
  Did("acceptJoin", [NoArgs EXCEPT !.connId = connId, !.a = name])

TransferCashOp(from, to, amount) == Operate(opTransferCash(from, to, amount))
TransferPropertyOp(propId, owner) == Operate(opTransferProperty(propId, owner))
MortgageOp(propId) == Operate(opMortgage(propId))
UnmortgageOp(propId) == Operate(opUnmortgage(propId))
BuildOp(propId) == Operate(opBuild(propId))
SellBuildingOp(propId) == Operate(opSellBuilding(propId))
BankruptcyToPlayerOp(debtor, creditor) == Operate(opBankruptcyToPlayer(debtor, creditor))
BankruptcyToBankOp(debtor) == Operate(opBankruptcyToBank(debtor))
AuctionOp(propId, winner, price) == Operate(opAuction(propId, winner, price))

PropInputs == {"P01", "P02", "T1"}
AmountInputs ==
  {Num(200), Num(-20000000), Num(0), [fin |-> TRUE, twice |-> 5], NaN}
\* what the "Precio" field can hold: whole prices and half a unit ("0.5")
PriceInputs == {Num(1), Num(100), [fin |-> TRUE, twice |-> 1]}

KeyInputs == {<<"a", "l">>, <<"b", "o">>}

OperatorNext ==
  \/ \E from \in KeyInputs \cup {BANK}, to \in KeyInputs \cup {BANK},
        amount \in AmountInputs : TransferCashOp(from, to, amount)
  \/ \E propId \in PropInputs, owner \in KeyInputs \cup {NULL} :
        TransferPropertyOp(propId, owner)
  \/ \E propId \in PropInputs : MortgageOp(propId)
  \/ \E propId \in PropInputs : UnmortgageOp(propId)
  \/ \E propId \in PropInputs : BuildOp(propId)
  \/ \E propId \in PropInputs : SellBuildingOp(propId)
  \/ \E debtor \in KeyInputs, creditor \in KeyInputs :
        BankruptcyToPlayerOp(debtor, creditor)
  \/ \E debtor \in KeyInputs : BankruptcyToBankOp(debtor)
  \/ \E propId \in PropInputs, winner \in KeyInputs, price \in PriceInputs :
        AuctionOp(propId, winner, price)

---------------------------------------------------------------------------
(* part_000: the transport's callbacks and the connection panel           *)

NameInputs == {<<"A", "l">>, <<" ", "a", "l">>, <<" ">>}

AllClosed == [c \in DOMAIN peer |-> [peer[c] EXCEPT !.phase = "closed"]]

\* lines 157-167; the button is disabled while a game exists
CreateGame ==
  /\ Alive /\ ~HasGame
  /\ state' = makeGame
  /\ conns' = [c \in {} |-> 0]
  /\ peer' = AllClosed
  /\ pendingJoin' = << >>
  /\ ui' = EmptyUi
  /\ last' = Did("createGame", NoArgs)
  /\ UNCHANGED <<outbox, raised, budget>>

\* lines 169-179
ResetAll ==
  /\ Alive /\ HasGame
  /\ state' = NoGame
  /\ conns' = [c \in {} |-> 0]
  /\ peer' = AllClosed
  /\ pendingJoin' = << >>
  /\ ui' = EmptyUi
  /\ last' = Did("resetAll", NoArgs)
  /\ UNCHANGED <<outbox, raised, budget>>

\* lines 181-192
AddConnectionOffer ==
  /\ Alive /\ HasGame
  /\ ConnIdPool \ DOMAIN peer # {}
  /\ \E c \in {CHOOSE d \in ConnIdPool \ DOMAIN peer : TRUE} :
         /\ conns' = [d \in DOMAIN conns \cup {c} |->
                        IF d = c THEN [status |-> "creating", seen |-> View]
                        ELSE conns[d]]
         /\ peer' = [d \in DOMAIN peer \cup {c} |->
                       IF d = c THEN [phase |-> "new", answers |-> 0] ELSE peer[d]]
         /\ outbox' = [d \in DOMAIN outbox \cup {c} |->
                         IF d = c THEN << >> ELSE outbox[d]]
         /\ last' = Did("addConnectionOffer", [NoArgs EXCEPT !.connId = c])
  /\ UNCHANGED <<state, pendingJoin, raised, ui, budget>>

\* lines 194-199: the transport has gathered its offer
PeerSignal(c) ==
  /\ Alive /\ peer[c].phase = "new"
  /\ peer' = [peer EXCEPT ![c].phase = "signaled"]
  /\ conns' = [conns EXCEPT ![c].status = "waiting_answer"]
  /\ last' = Did("signal", [NoArgs EXCEPT !.connId = c])
  /\ UNCHANGED <<state, pendingJoin, outbox, raised, ui, budget>>

\* lines 281-297: an ANSWER for connId c is scanned; conn.peer.signal runs
\* whenever the registry holds c.  answers counts 0, 1, 2 = more than once.
OnScanAnswer(c) ==
  /\ Alive /\ c \in DOMAIN conns
  /\ peer[c].phase \in {"signaled", "answered", "open"}
  /\ peer' = [peer EXCEPT ![c].answers = Min2(@ + 1, 2),
                          ![c].phase = IF @ = "signaled" THEN "answered" ELSE @]
  /\ last' = Did("onScanAnswer", [NoArgs EXCEPT !.connId = c])
  /\ UNCHANGED <<state, conns, pendingJoin, outbox, raised, ui, budget>>

\* lines 201-209: the handler's broadcastState reads the registry it closed over
PeerConnect(c) ==
  /\ Alive /\ peer[c].phase = "answered"
  /\ peer' = [peer EXCEPT ![c].phase = "open"]
  /\ conns' = [conns EXCEPT ![c].status = "connected"]
  /\ outbox' = IF HasGame THEN broadcastState(conns[c].seen, state) ELSE outbox
  /\ last' = Did("connect", [NoArgs EXCEPT !.connId = c])
  /\ UNCHANGED <<state, pendingJoin, raised, ui, budget>>

\* lines 215-244: a HELLO{connId, name} arrives on connection c
PeerHello_AutoAdmit(c, connId, name) ==
  /\ Alive /\ peer[c].phase = "open"
  /\ budget.msg > 0
  /\ budget' = [budget EXCEPT !.msg = @ - 1]
  /\ last' = Did("HELLO", [NoArgs EXCEPT !.connId = c, !.a = name])
  /\ IF trim(name) = << >>
     THEN /\ outbox' = safeSend(outbox, c, [t |-> "REJECT", reason |-> "Nombre vacio"])
          /\ UNCHANGED state
     ELSE IF HasGame
     THEN mutate(acceptJoinUpdate(state,
                   [connId |-> connId, name |-> trim(name),
                    kind |-> helloKind(state, normalizeName(trim(name)))]))
     ELSE UNCHANGED <<state, outbox>>
  /\ UNCHANGED <<pendingJoin, conns, peer, raised, ui>>

PeerHello(c, connId, name) ==
  /\ Alive /\ peer[c].phase = "open"
  /\ budget.msg > 0
  /\ budget' = [budget EXCEPT !.msg = @ - 1]
  /\ last' = Did("HELLO", [NoArgs EXCEPT !.connId = c, !.a = name])
  /\ IF trim(name) = << >>
     THEN /\ outbox' = safeSend(outbox, c, [t |-> "REJECT", reason |-> "Nombre vacio"])
          /\ UNCHANGED pendingJoin
     ELSE /\ pendingJoin' =
               IF HasGame
               THEN Append(pendingJoin,
                      [connId |-> connId, name |-> trim(name),
                       kind |-> helloKind(state, normalizeName(trim(name)))])
               ELSE pendingJoin
          /\ UNCHANGED outbox
  /\ UNCHANGED <<state, conns, peer, raised, ui>>

\* lines 246-254: a REQUEST{connId, req: {k: "PAY", ...}} arrives on c
PeerRequest(c) ==
  /\ Alive /\ peer[c].phase = "open"
  /\ budget.msg > 0
  /\ budget' = [budget EXCEPT !.msg = @ - 1]
  /\ last' = Did("REQUEST", [NoArgs EXCEPT !.connId = c])
  /\ state' = IF HasGame
              THEN addTx(state, [type |-> "cash", from |-> BANK, to |-> BANK,
                                 note |-> <<"Solicitud: PAY ()", "">>])
              ELSE state
  /\ UNCHANGED <<conns, peer, pendingJoin, outbox, raised, ui>>

WithoutConn(c) == [d \in DOMAIN conns \ {c} |-> conns[d]]

\* lines 257-276: the transport of c closed
PeerClose(c) ==
  /\ Alive /\ peer[c].phase # "closed"
  /\ peer' = [peer EXCEPT ![c].phase = "closed"]
  /\ conns' = WithoutConn(c)
  /\ last' = Did("close", [NoArgs EXCEPT !.connId = c])
  /\ IF HasGame
     THEN /\ state' = closeUpdate(state, c)
          /\ outbox' = broadcastState(conns[c].seen, closeUpdate(state, c))
     ELSE UNCHANGED <<state, outbox>>
  /\ UNCHANGED <<pendingJoin, raised, ui, budget>>

RemoveAt(seq, i) == SubSeq(seq, 1, i - 1) \o SubSeq(seq, i + 1, Len(seq))

\* lines 299-348: the operator answers the i-th pending request
AcceptJoin_SilentReject(i, accept) ==
  /\ Alive /\ HasGame
  /\ LET req == pendingJoin[i]
     IN  /\ pendingJoin' = RemoveAt(pendingJoin, i)
         /\ last' = Did(IF accept THEN "acceptJoin" ELSE "rejectJoin",
                        [NoArgs EXCEPT !.connId = req.connId, !.a = req.name])
         /\ IF req.connId \notin DOMAIN conns \/ ~accept
            THEN UNCHANGED <<state, outbox>>
            ELSE mutate(acceptJoinUpdate(state, req))
  /\ UNCHANGED <<conns, peer, raised, ui, budget>>

AcceptJoin(i, accept) ==
  /\ Alive /\ HasGame
  /\ LET req == pendingJoin[i]
     IN  /\ pendingJoin' = RemoveAt(pendingJoin, i)
         /\ last' = Did(IF accept THEN "acceptJoin" ELSE "rejectJoin",
                        [NoArgs EXCEPT !.connId = req.connId, !.a = req.name])
         /\ IF req.connId \notin DOMAIN conns
            THEN UNCHANGED <<state, outbox>>
            ELSE IF ~accept
            THEN /\ outbox' = safeSend(outbox, req.connId,
                                [t |-> "REJECT", reason |-> "Rechazado por el Banco"])
                 /\ UNCHANGED state
            ELSE mutate(acceptJoinUpdate(state, req))
  /\ UNCHANGED <<conns, peer, raised, ui, budget>>

NetworkNext ==
  \/ CreateGame
  \/ ResetAll
  \/ AddConnectionOffer
  \/ \E c \in DOMAIN peer : PeerSignal(c)
  \/ \E c \in DOMAIN peer : OnScanAnswer(c)
  \/ \E c \in DOMAIN peer : PeerConnect(c)
  \/ \E c \in DOMAIN peer, name \in NameInputs : PeerHello(c, c, name)
  \/ \E c \in DOMAIN peer : PeerRequest(c)
  \/ \E c \in DOMAIN peer : PeerClose(c)
  \/ \E i \in 1..Len(pendingJoin), accept \in BOOLEAN : AcceptJoin(i, accept)


\* the operator's actions explored next to the network
NetOperatorNext ==
  \/ \E to \in Keys(state) : TransferCashOp(BANK, to, Num(200))
  \/ \E debtor \in Keys(state) : BankruptcyToBankOp(debtor)

---------------------------------------------------------------------------
(* The bank screen from its first mount, nothing persisted                 *)

Init ==
  /\ state = NoGame
  /\ conns = [c \in {} |-> 0]
  /\ peer = [c \in {} |-> 0]
  /\ pendingJoin = << >>
  /\ outbox = [c \in {} |-> 0]
  /\ raised = "no"
  /\ ui = EmptyUi
  /\ last = Did("mount", NoArgs)
  /\ budget = [rule |-> NetOps, msg |-> MaxMsgs]

Next == NetworkNext \/ NetOperatorNext

Spec == Init /\ [][Next]_vars

---------------------------------------------------------------------------
(* The bank screen mounted on a persisted game (line 124): the game is     *)
(* what an earlier session of the operator left, no connection is open.    *)
(* An earlier session is a script of admitted players and pressed buttons, *)
(* run through the panels' guards and the rules.                           *)

RECURSIVE RunScript(_, _, _, _)
RunScript(st, u, script, i) ==
  IF i > Len(script) THEN [st |-> st, ok |-> TRUE]
  ELSE LET o == script[i]
       IN  IF ~OpGuard(u, st, o) \/ OpRaises(st, o)
           THEN [st |-> st, ok |-> FALSE]
           ELSE RunScript(OpApply(st, o), UiAfter(u, o), script, i + 1)

al == <<"a", "l">>
bo == <<"b", "o">>
c1 == <<"c", "1">>
c2 == <<"c", "2">>

TwoPlayers == <<opAcceptJoin(c1, al), opAcceptJoin(c2, bo)>>
Owned ==
  TwoPlayers \o <<opTransferProperty("P01", al), opTransferProperty("P02", al),
                  opTransferProperty("T1", bo)>>
Built44 ==
  Owned \o <<opBuild("P01"), opBuild("P02"), opBuild("P01"), opBuild("P02"),
             opBuild("P01"), opBuild("P02"), opBuild("P01"), opBuild("P02")>>

\* `n` rounds over the streets `ids`: the button of rule `op` pressed once per
\* street, the owner select holding `owner`
Rounds(op, ids, owner, n) ==
  [i \in 1..(n * Len(ids)) |->
     Did(op, [NoArgs EXCEPT !.propId = ids[((i - 1) % Len(ids)) + 1],
                            !.a = owner])]

\* al buys a hotel on P01, the bank's last houses go onto other streets, the
\* hotel is sold back while the bank has no house, and the houses are sold
\* back until two stand on each brown street
HotelSoldAtZero ==
  TwoPlayers
    \o <<opTransferCash(BANK, al, Num(20000))>>
    \o Rounds("transferProperty",
              groupProps("brown") \o groupProps("lightblue")
                \o groupProps("pink") \o groupProps("orange"), al, 1)
    \o Rounds("doBuild", groupProps("brown"), NULL, 4) \o <<opBuild("P01")>>
    \o Rounds("doBuild", groupProps("lightblue"), NULL, 4)
    \o Rounds("doBuild", groupProps("pink"), NULL, 4)
    \o Rounds("doBuild", groupProps("orange"), NULL, 1) \o <<opBuild("P09")>>
    \o <<opSellBuilding("P01")>>
    \o <<opSellBuilding("P09")>>
    \o Rounds("doSellBuilding", groupProps("orange"), NULL, 1)
    \o Rounds("doSellBuilding", groupProps("pink"), NULL, 4)
    \o Rounds("doSellBuilding", groupProps("lightblue"), NULL, 4)
    \o Rounds("doSellBuilding", groupProps("brown"), NULL, 2)

Scripts ==
  { << >>,
    HotelSoldAtZero,
    TwoPlayers,
    Owned,
    Owned \o <<opBuild("P01")>>,
    Built44,
    Built44 \o <<opBuild("P01")>>,
    Owned \o <<opMortgage("P01")>>,
    \* built streets and a mortgaged station in one hand
    Built44 \o <<opTransferProperty("T1", al), opMortgage("T1")>>,
    \* the owner select still holds a player that went bankrupt
    TwoPlayers
      \o <<opTransferProperty("T1", bo), opTransferProperty("P01", al),
           opTransferProperty("P02", al), opBankruptcyToBank(al),
           opTransferProperty("P01", al)>>,
    \* a group levelled by one owner, split, and joined again
    SubSeq(Built44, 1, 11)
      \o <<opTransferProperty("P02", bo), opBankruptcyToBank(bo),
           opTransferProperty("P02", al)>>,
    \* one player and a queue of two
    <<opAcceptJoin(c1, al), opAcceptJoin(c2, bo),
      opTransferProperty("P01", bo), opTransferProperty("T1", bo),
      opBankruptcyToBank(bo)>> }

Restored == {r.st : r \in {x \in {RunScript(makeGame, EmptyUi, sc, 1) : sc \in Scripts} : x.ok}}

InitRestored ==
  /\ state \in Restored
  /\ conns = [c \in {} |-> 0]
  /\ peer = [c \in {} |-> 0]
  /\ pendingJoin = << >>
  /\ outbox = [c \in {} |-> 0]
  /\ raised = "no"
  /\ ui = EmptyUi
  /\ last = Did("mount", NoArgs)
  /\ budget = [rule |-> MaxOps, msg |-> 0]

NextRestored == OperatorNext

SpecRestored == InitRestored /\ [][NextRestored]_vars

---------------------------------------------------------------------------
(* The bank screen against whatever the transport and the remote side can  *)
(* hand it: repeated signal events, scanned texts of any content, inbound  *)
(* data of any content.                                                    *)

\* lines 194-199 once more: the transport of an open connection negotiates
\* again and emits signal; the handler sets the status without looking at it
PeerRenegotiate(c) ==
  /\ Alive /\ peer[c].phase = "open"
  /\ conns' = [conns EXCEPT ![c].status = "waiting_answer"]
  /\ last' = Did("signal", [NoArgs EXCEPT !.connId = c])
  /\ UNCHANGED <<state, peer, pendingJoin, outbox, raised, ui, budget>>

QR_PREFIX == <<"P", "B", "1", ":">>

startsWith(text, prefix) ==
  Len(text) >= Len(prefix) /\ SubSeq(text, 1, Len(prefix)) = prefix

slice(text, n) == SubSeq(text, n + 1, Len(text))

\* the payloads the two sides put into a QR (lines 443 and 921)
AnswerFor(c) == [kind |-> "ANSWER", connId |-> c]
OfferFor(c) == [kind |-> "OFFER", connId |-> c]
Payloads == {AnswerFor(c) : c \in ConnIdPool} \cup {OfferFor(c1)}

\* JSON.stringify of a payload
stringify(obj) == <<"{", obj.kind, ":">> \o obj.connId \o <<"}">>

\* JSON.parse: the payload a JSON text was made from, a SyntaxError otherwise
parse(json) ==
  IF \E obj \in Payloads : stringify(obj) = json
  THEN [ok |-> TRUE, value |-> CHOOSE obj \in Payloads : stringify(obj) = json]
  ELSE [ok |-> FALSE]

\* lz-string, URI-safe alphabet: each text is packed into another one; the
\* packing of the last text below is no JSON
NotJson == <<"o", "o", "p", "s">>
Packable == {stringify(obj) : obj \in Payloads} \cup {NotJson}
compressToEncodedURIComponent(json) ==
  <<"N", "4">> \o [i \in 1..Len(json) |-> json[Len(json) + 1 - i]]

\* null for a text that is no packing
decompressFromEncodedURIComponent(raw) ==
  IF \E json \in Packable : compressToEncodedURIComponent(json) = raw
  THEN [null |-> FALSE,
        json |-> CHOOSE json \in Packable : compressToEncodedURIComponent(json) = raw]
  ELSE [null |-> TRUE]

\* qr.ts lines 5-9
encodeQR(obj) == QR_PREFIX \o compressToEncodedURIComponent(stringify(obj))

\* qr.ts lines 11-16; `tried` lists the decoding steps that ran
decodeQR(text) ==
  LET raw == IF startsWith(text, QR_PREFIX) THEN slice(text, Len(QR_PREFIX)) ELSE text
      json == decompressFromEncodedURIComponent(raw)
  IN  IF json.null
      THEN [ok |-> FALSE, error |-> "QR invalido / no compatible",
            tried |-> <<"decompress">>]
      ELSE IF ~parse(json.json).ok
      THEN [ok |-> FALSE, error |-> "SyntaxError", tried |-> <<"decompress", "parse">>]
      ELSE [ok |-> TRUE, value |-> parse(json.json).value,
            tried |-> <<"decompress", "parse">>]

\* the texts held before the bank's scanner
QrTexts ==
  {encodeQR(AnswerFor(c)) : c \in ConnIdPool}
    \cup {compressToEncodedURIComponent(stringify(AnswerFor(c1))),
          <<"P", "B", "2", ":">> \o compressToEncodedURIComponent(stringify(AnswerFor(c1))),
          encodeQR(OfferFor(c1)),
          QR_PREFIX \o compressToEncodedURIComponent(NotJson),
          << >>}

\* lines 287-297 with 281-285: what onScanAnswer leaves in scanError, NULL
\* when the answer went to the transport
scanError(text) ==
  LET decoded == decodeQR(text)
  IN  IF ~decoded.ok THEN <<decoded.error>>
      ELSE IF decoded.value.kind # "ANSWER" THEN <<"QR no es ANSWER">>
      ELSE IF decoded.value.connId \notin DOMAIN conns
      THEN <<"No existe esa conexion pendiente">>
      ELSE NULL

\* lines 287-297: a text is scanned.  A text that names a connection exists
\* only once that connection has shown its offer.
ScanText(text) ==
  /\ Alive
  /\ IF decodeQR(text).ok
     THEN IF decodeQR(text).value.connId \in DOMAIN peer
          THEN peer[decodeQR(text).value.connId].phase # "new"
          ELSE TRUE
     ELSE TRUE
  /\ last' = Did("onScanAnswer", [NoArgs EXCEPT !.a = text, !.b = scanError(text)])
  /\ peer' = IF scanError(text) = NULL
             THEN [peer EXCEPT
                     ![decodeQR(text).value.connId].answers = Min2(@ + 1, 2),
                     ![decodeQR(text).value.connId].phase =
                        IF @ = "signaled" THEN "answered" ELSE @]
             ELSE peer
  /\ UNCHANGED <<state, conns, pendingJoin, outbox, raised, ui, budget>>

\* what JSON.parse makes of the data a peer can send; every other text is a
\* SyntaxError
JsNull == [js |-> "null"]
JsString(s) == [js |-> "string", s |-> s]
JsonValues ==
  ("null" :> JsNull)
    @@ ("5" :> [js |-> "number"])
    @@ ("{\"t\":\"HELLO\"}" :> [js |-> "object", t |-> "HELLO"])
    @@ ("{\"t\":\"HELLO\",\"connId\":\"c1\",\"name\":5}"
          :> [js |-> "object", t |-> "HELLO", connId |-> JsString(c1),
              name |-> [js |-> "number"]])
    @@ ("{\"t\":\"HELLO\",\"connId\":\"c1\",\"name\":\"Al\"}"
          :> [js |-> "object", t |-> "HELLO", connId |-> JsString(c1),
              name |-> JsString(<<"A", "l">>)])
    @@ ("{\"t\":\"REQUEST\",\"connId\":\"c1\"}"
          :> [js |-> "object", t |-> "REQUEST", connId |-> JsString(c1)])
    @@ ("{\"t\":\"REQUEST\",\"connId\":\"c1\",\"req\":{\"k\":\"PAY\"}}"
          :> [js |-> "object", t |-> "REQUEST", connId |-> JsString(c1),
              req |-> [js |-> "object", k |-> "PAY"]])

DataInputs == DOMAIN JsonValues \cup {"{oops"}

\* lines 67-74: null for a text JSON.parse refuses, and for the text null
safeParse(data) == IF data \in DOMAIN JsonValues THEN JsonValues[data] ELSE JsNull

\* the inbound data carries what its handler reads: a HELLO a string name, a
\* REQUEST a req
WellFormed(msg) ==
  /\ msg.js = "object"
  /\ msg.t = "HELLO" => ("name" \in DOMAIN msg /\ msg.name.js = "string")
  /\ msg.t = "REQUEST" => "req" \in DOMAIN msg

\* lines 211-255: data of any content arrives on connection c.  msg.name.trim()
\* throws in the handler when name is no string ("handler"); msg.req.k throws
\* in the state updater when req is missing ("render").
PeerData(c, data) ==
  /\ Alive /\ peer[c].phase = "open"
  /\ budget.msg > 0
  /\ budget' = [budget EXCEPT !.msg = @ - 1]
  /\ last' = Did("data", [NoArgs EXCEPT !.connId = c, !.a = <<data>>])
  /\ LET msg == safeParse(data)
     IN  IF msg.js # "object"
         THEN UNCHANGED <<state, pendingJoin, outbox, raised>>
         ELSE IF msg.t = "HELLO"
         THEN IF ~WellFormed(msg)
              THEN raised' = "handler" /\ UNCHANGED <<state, pendingJoin, outbox>>
              ELSE IF trim(msg.name.s) = << >>
              THEN /\ outbox' = safeSend(outbox, c,
                                  [t |-> "REJECT", reason |-> "Nombre vacio"])
                   /\ UNCHANGED <<state, pendingJoin, raised>>
              ELSE /\ pendingJoin' =
                        IF HasGame
                        THEN Append(pendingJoin,
                               [connId |-> msg.connId.s, name |-> trim(msg.name.s),
                                kind |-> helloKind(state,
                                           normalizeName(trim(msg.name.s)))])
                        ELSE pendingJoin
                   /\ UNCHANGED <<state, outbox, raised>>
         ELSE IF msg.t = "REQUEST"
         THEN IF ~HasGame
              THEN UNCHANGED <<state, pendingJoin, outbox, raised>>
              ELSE IF ~WellFormed(msg)
              THEN Crash /\ UNCHANGED pendingJoin
              ELSE /\ state' = addTx(state,
                                 [type |-> "cash", from |-> BANK, to |-> BANK,
                                  note |-> <<"Solicitud: PAY ()", "">>])
                   /\ UNCHANGED <<pendingJoin, outbox, raised>>
         ELSE UNCHANGED <<state, pendingJoin, outbox, raised>>
  /\ UNCHANGED <<conns, peer, ui>>

NextTransport ==
  \/ CreateGame
  \/ ResetAll
  \/ AddConnectionOffer
  \/ \E c \in DOMAIN peer : PeerSignal(c)
  \/ \E c \in DOMAIN peer : PeerRenegotiate(c)
  \/ \E text \in QrTexts : ScanText(text)
  \/ \E c \in DOMAIN peer : PeerConnect(c)
  \/ \E c \in DOMAIN peer, data \in DataInputs : PeerData(c, data)
  \/ \E c \in DOMAIN peer : PeerClose(c)

SpecTransport == Init /\ [][NextTransport]_vars

---------------------------------------------------------------------------
(* A persisted game to which peers connect while the operator declares     *)
(* bankruptcies between players: the operations of several steps, with     *)
(* connections open to receive their snapshots.                            *)

NextSnapshots ==
  \/ AddConnectionOffer
  \/ \E c \in DOMAIN peer : PeerSignal(c)
  \/ \E c \in DOMAIN peer : OnScanAnswer(c)
  \/ \E c \in DOMAIN peer : PeerConnect(c)
  \/ \E c \in DOMAIN peer : PeerClose(c)
  \/ \E debtor \in KeyInputs, creditor \in KeyInputs :
        BankruptcyToPlayerOp(debtor, creditor)

SpecSnapshots == InitRestored /\ [][NextSnapshots]_vars

---------------------------------------------------------------------------
(* Properties                                                              *)

CheckedOps == {"doMortgage", "doUnmortgage", "doBuild", "doSellBuilding"}
RuleOps ==
  CheckedOps \cup {"transferCash", "transferProperty", "declareBankruptcyToPlayer",
                   "declareBankruptcyToBank", "auctionSellTo"}

\* this step is a rule applied by the operator to `state`, and it returned
RuleReturned == HasGame /\ last'.op \in RuleOps /\ raised' = "no"

\* the verdict of the rule's check on st (never evaluated where it throws)
Verdict(st, o) ==
  CASE o.op = "doMortgage" -> canMortgage(st, o.propId)
    [] o.op = "doUnmortgage" -> canUnmortgage(st, o.propId)
    [] o.op = "doBuild" -> canBuildHouse(st, o.propId)
    [] o.op = "doSellBuilding" -> canSellBuilding(st, o.propId)

Refused(st, o) == o.op \in CheckedOps /\ ~OpRaises(st, o) /\ ~Verdict(st, o).ok

SameEconomy(s, t) ==
  /\ t.players = s.players
  /\ t.props = s.props
  /\ t.bank = s.bank
  /\ t.auctionQueue = s.auctionQueue

\* C1: after every change of the bank's GameState, every connection whose
\* status is connected is sent one STATE message carrying the new snapshot.
C1_BroadcastOnEveryChange ==
  [][(HasGame /\ HasGame' /\ state' # state)
       => \A c \in DOMAIN conns' :
            conns'[c].status = "connected"
              => /\ Len(outbox'[c]) = Len(outbox[c]) + 1
                 /\ outbox'[c][Len(outbox'[c])] = StateMsg(state')]_vars

\* C2: every rule applied to a reachable state returns a state; none raises.
C2_RulesNeverRaise == raised = "no"

\* C3: a refused doMortgage, doUnmortgage, doBuild or doSellBuilding leaves
\* players, props, bank and auctionQueue as they were and puts exactly one
\* entry at the head of tx, from BANK to BANK, without amount, with the reason.
C3_RefusalOnlyAudits ==
  [][(RuleReturned /\ Refused(state, last'))
       => /\ SameEconomy(state, state')
          /\ Tail(state'.tx) = state.tx
          /\ Head(state'.tx).from = BANK
          /\ Head(state'.tx).to = BANK
          /\ "amount" \notin DOMAIN Head(state'.tx)
          /\ Head(state'.tx).propertyId = last'.propId
          /\ Head(state'.tx).note[2] = Verdict(state, last').reason]_vars

\* a refusal has just been recorded
C3_Witness ==
  /\ HasGame /\ raised = "no" /\ last.op \in CheckedOps
  /\ Len(state.tx) > 0
  /\ Head(state.tx).from = BANK /\ Head(state.tx).to = BANK
  /\ "amount" \notin DOMAIN Head(state.tx)
  /\ Head(state.tx).note[2] # ""

NumOwned(st, k) == Cardinality({p \in PropIds : st.props[p].owner = k})

\* the number of entries the rule o puts on tx when applied to st
TxGrowth(st, o) ==
  CASE o.op \in CheckedOps -> 1
    [] o.op = "transferProperty" -> 1
    [] o.op = "transferCash" ->
         IF \/ clampMoney(o.amount) = 0
            \/ (o.a # BANK /\ ~HasPlayer(st, o.a))
            \/ (o.b # BANK /\ ~HasPlayer(st, o.b))
         THEN 0 ELSE 1
    [] o.op = "auctionSellTo" ->
         IF ~HasPlayer(st, o.a) THEN 0
         ELSE IF clampMoney(o.amount) = 0 THEN 1 ELSE 2
    [] o.op = "declareBankruptcyToBank" -> IF HasPlayer(st, o.a) THEN 1 ELSE 0

NonZeroAmount(o) ==
  o.op \in {"transferCash", "auctionSellTo"} => clampMoney(o.amount) # 0

C5_BalancesInRange ==
  HasGame =>
    \A k \in DOMAIN state.players :
      state.players[k].balance \in (-MONEY_LIMIT)..MONEY_LIMIT

\* a transfer beyond the range left a balance on the limit
C5_Witness ==
  /\ HasGame /\ last.op = "transferCash"
  /\ last.amount.fin /\ last.amount.twice \div 2 < -MONEY_LIMIT
  /\ \E k \in DOMAIN state.players :
       state.players[k].balance \in {MONEY_LIMIT, -MONEY_LIMIT}

\* C6: a property with buildings is a street and has an owner.
C6_BuiltIsOwnedStreet ==
  HasGame =>
    \A p \in PropIds :
      state.props[p].buildings > 0
        => getDef(p).kind = "street" /\ state.props[p].owner # NULL

\* C7: a mortgaged property has no buildings.
C7_MortgagedHasNoBuildings ==
  HasGame =>
    \A p \in PropIds : state.props[p].mortgaged => state.props[p].buildings = 0

\* a build on a mortgaged property has just been refused
C7_Witness ==
  /\ HasGame /\ raised = "no" /\ last.op = "doBuild"
  /\ state.props[last.propId].mortgaged
  /\ Head(state.tx).note = <<"Build fallo: ", "No se construye en hipotecada">>

LevelsOfGroup(st, propId) == GroupLevels(st, groupProps(groupOf(propId)))

BuildSucceeds(st, o) ==
  o.op = "doBuild" /\ ~OpRaises(st, o) /\ canBuildHouse(st, o.propId).ok

\* C8: doBuild(p) succeeds only when p's level is the lowest of its group, and
\* after a successful doBuild the levels of the group differ by at most 1.
C8_EvenBuilding ==
  [][(RuleReturned /\ BuildSucceeds(state, last'))
       => /\ state.props[last'.propId].buildings
               = MinOf(LevelsOfGroup(state, last'.propId))
          /\ MaxOf(LevelsOfGroup(state', last'.propId))
               - MinOf(LevelsOfGroup(state', last'.propId)) <= 1]_vars

Count(seq, x) == Cardinality({i \in 1..Len(seq) : seq[i] = x})

\* C9: after declareBankruptcyToBank(d) for an existing player d, d is no
\* player and every property d owned has owner null, is not mortgaged, has no
\* buildings and appears exactly once in auctionQueue.
C9_BankruptcyToBankQueuesOnce ==
  [][(RuleReturned /\ last'.op = "declareBankruptcyToBank"
        /\ HasPlayer(state, last'.a))
       => /\ ~HasPlayer(state', last'.a)
          /\ \A p \in PropIds :
               state.props[p].owner = last'.a
                 => /\ state'.props[p].owner = NULL
                    /\ ~state'.props[p].mortgaged
                    /\ state'.props[p].buildings = 0
                    /\ Count(state'.auctionQueue, p) = 1]_vars

\* C10: a second auctionSellTo with the same property, winner and price
\* leaves the winner's balance as the first call left it.
C10_AuctionChargesOnce ==
  [][(RuleReturned /\ last.op = "auctionSellTo" /\ last' = last
        /\ budget'.rule < budget.rule /\ HasPlayer(state, last.a))
       => state'.players[last.a].balance = state.players[last.a].balance]_vars

\* this step is declareBankruptcyToPlayer between two distinct players
BankruptcyToPlayerStep ==
  /\ RuleReturned
  /\ last'.op = "declareBankruptcyToPlayer"
  /\ last'.a # last'.b
  /\ HasPlayer(state, last'.a)
  /\ HasPlayer(state, last'.b)

\* C11: after declareBankruptcyToPlayer(debtor, creditor) every street the
\* debtor owned holds zero buildings.
C11_BankruptcyDrainsBuildings ==
  [][BankruptcyToPlayerStep
       => \A p \in PropIds :
            (state.props[p].owner = last'.a /\ getDef(p).kind = "street")
              => state'.props[p].buildings = 0]_vars

\* the sum of f over the property definitions from the i-th on
RECURSIVE SumProps(_, _)
SumProps(f, i) ==
  IF i > Len(PROPERTY_DEFS) THEN 0
  ELSE f[PROPERTY_DEFS[i].id] + SumProps(f, i + 1)

\* what the bank paid for the building levels that left d's properties
\* between st and nx: half the building cost of the group for each level
SalePayouts(st, nx, d) ==
  SumProps([p \in PropIds |->
              IF st.props[p].owner = d /\ getDef(p).kind = "street"
              THEN (st.props[p].buildings - nx.props[p].buildings)
                     * FloorHalf(BUILD_COST_BY_GROUP(groupOf(p)))
              ELSE 0], 1)

\* ceil(10% of the mortgage value) over d's mortgaged properties in st
MortgageInterest(st, d) ==
  SumProps([p \in PropIds |->
              IF st.props[p].owner = d /\ st.props[p].mortgaged
              THEN CeilTenth(mortgageValue(p))
              ELSE 0], 1)

Abs(n) == IF n < 0 THEN -n ELSE n

\* no balance of d or c comes near the money limit during the bankruptcy
NoBankruptcyClamp(st, nx, d, c) ==
  Abs(st.players[d].balance) + Abs(st.players[c].balance)
    + SalePayouts(st, nx, d) + MortgageInterest(st, d) <= MONEY_LIMIT

\* C12: after declareBankruptcyToPlayer(d, c) with d and c distinct players,
\* d is no player, no property has owner d, every property d owned is owned
\* by c, and while no balance is clamped c's balance is its balance before
\* plus d's balance before plus the payouts of the building sales minus
\* ceil(10% of the mortgage value) of every mortgaged property handed over.
C12_BankruptcyToPlayerEffect ==
  [][BankruptcyToPlayerStep
       => /\ ~HasPlayer(state', last'.a)
          /\ HasPlayer(state', last'.b)
          /\ \A p \in PropIds :
               /\ state'.props[p].owner # last'.a
               /\ state.props[p].owner = last'.a
                    => state'.props[p].owner = last'.b
          /\ NoBankruptcyClamp(state, state', last'.a, last'.b)
               => state'.players[last'.b].balance
                    = state.players[last'.b].balance
                        + state.players[last'.a].balance
                        + SalePayouts(state, state', last'.a)
                        - MortgageInterest(state, last'.a)]_vars

\* the debtor is gone after a bankruptcy that sold buildings and handed over
\* a mortgaged property
C12_Witness ==
  /\ HasGame
  /\ raised = "no"
  /\ last.op = "declareBankruptcyToPlayer"
  /\ ~HasPlayer(state, last.a)
  /\ HasPlayer(state, last.b)
  /\ state.tx[1].type = "bankruptcy_player"
  /\ \E i \in 2..Len(state.tx) :
       state.tx[i].note = <<"Interes 10% por recibir propiedad hipotecada", "">>
  /\ \E i \in 2..Len(state.tx) :
       state.tx[i].note = <<"Liquidacion por bancarrota (edificios)", "">>

\* this step is a doMortgage that was allowed
MortgageSucceeds ==
  /\ RuleReturned
  /\ last'.op = "doMortgage"
  /\ canMortgage(state, last'.propId).ok

\* doUnmortgage(p) applied at once to the result of this doMortgage(p) leaves
\* p unmortgaged and the owner ceil(mortgageValue/10) poorer than before
PairCostsInterest ==
  LET p == last'.propId
      owner == state.props[p].owner
      back == doUnmortgage(state', p)
  IN  /\ ~back.props[p].mortgaged
      /\ back.players[owner].balance
           = state.players[owner].balance - CeilTenth(mortgageValue(p))

\* C13 as stated: doMortgage(p) followed at once by doUnmortgage(p) leaves
\* mortgaged = false and the owner's balance lower by ceil(mortgageValue/10),
\* for every starting balance of the owner.
C13_MortgageRoundTrip ==
  [][MortgageSucceeds => PairCostsInterest]_vars

\* C13 amended: the same for every starting balance b of the owner with
\* ceil(mortgageValue/10) <= b and b + mortgageValue <= MONEY_LIMIT.
C13_MortgageRoundTripInRange ==
  [][(/\ MortgageSucceeds
      /\ CeilTenth(mortgageValue(last'.propId))
           <= state.players[state.props[last'.propId].owner].balance
      /\ state.players[state.props[last'.propId].owner].balance
           + mortgageValue(last'.propId) <= MONEY_LIMIT)
       => PairCostsInterest]_vars

\* a mortgage was taken and lifted again by the next operation
C13_Witness ==
  /\ HasGame
  /\ raised = "no"
  /\ last.op = "doUnmortgage"
  /\ Len(state.tx) >= 2
  /\ state.tx[1].type = "unmortgage"
  /\ "amount" \in DOMAIN state.tx[1]
  /\ state.tx[2].type = "mortgage"
  /\ "amount" \in DOMAIN state.tx[2]
  /\ state.tx[2].propertyId = last.propId
  /\ ~state.props[last.propId].mortgaged

\* this step is a doSellBuilding that was allowed
SellSucceeds(st, o) ==
  /\ o.op = "doSellBuilding"
  /\ ~OpRaises(st, o)
  /\ canSellBuilding(st, o.propId).ok

\* C14: a successful doBuild from level 4 lowers hotelsAvailable by 1 and
\* raises housesAvailable by 4, every other successful doBuild lowers
\* housesAvailable by 1 and leaves the hotels; a successful doSellBuilding
\* from level 5 raises hotelsAvailable by 1 and lowers housesAvailable by 4,
\* not below 0; a doSellBuilding at once after a build from 4 to 5 gives the
\* bank the inventory it had before the build.
C14_HotelInventory ==
  [][/\ (RuleReturned /\ BuildSucceeds(state, last'))
          => /\ state.props[last'.propId].buildings = 4
                  => /\ state'.bank.hotelsAvailable = state.bank.hotelsAvailable - 1
                     /\ state'.bank.housesAvailable = state.bank.housesAvailable + 4
                     /\ doSellBuilding(state', last'.propId).bank = state.bank
             /\ state.props[last'.propId].buildings # 4
                  => /\ state'.bank.hotelsAvailable = state.bank.hotelsAvailable
                     /\ state'.bank.housesAvailable = state.bank.housesAvailable - 1
     /\ (RuleReturned /\ SellSucceeds(state, last')
           /\ state.props[last'.propId].buildings = 5)
          => /\ state'.bank.hotelsAvailable = state.bank.hotelsAvailable + 1
             /\ state'.bank.housesAvailable
                  = Max2(0, state.bank.housesAvailable - 4)]_vars

\* a hotel was bought and sold back by the next operation
C14_Witness ==
  /\ HasGame
  /\ raised = "no"
  /\ last.op = "doSellBuilding"
  /\ Len(state.tx) >= 2
  /\ state.tx[1].note = <<"Venta de edificio (Banco paga la mitad)", "">>
  /\ state.tx[2].note = <<"Compra de hotel", "">>
  /\ state.tx[2].propertyId = last.propId
  /\ state.props[last.propId].buildings = 4

\* one player owns the whole group of street p and a member is mortgaged
WholeGroupWithMortgage(st, p) ==
  /\ HasDef(p)
  /\ HasProp(st, p)
  /\ getDef(p).kind = "street"
  /\ st.props[p].owner # NULL
  /\ ownsFullGroup(st, st.props[p].owner, groupOf(p))
  /\ \E i \in 1..Len(groupProps(groupOf(p))) :
       st.props[groupProps(groupOf(p))[i]].mortgaged

MortgageReasons ==
  {"No se construye en hipotecada",
   "No se construye si alguna del grupo esta hipotecada"}

\* C15: when one player owns a whole color group and a member of it is
\* mortgaged, doBuild on any member is refused with a reason about the
\* mortgage; players, props, bank and auctionQueue stay as they were.
C15_NoBuildOnMortgagedGroup ==
  [][(RuleReturned /\ last'.op = "doBuild"
        /\ WholeGroupWithMortgage(state, last'.propId))
       => /\ SameEconomy(state, state')
          /\ Len(state'.tx) = Len(state.tx) + 1
          /\ state'.tx[1].note[1] = "Build fallo: "
          /\ state'.tx[1].note[2] \in MortgageReasons]_vars

\* doBuild was refused on the unmortgaged member of a group whose other
\* member is mortgaged
C15_Witness ==
  /\ HasGame
  /\ raised = "no"
  /\ last.op = "doBuild"
  /\ WholeGroupWithMortgage(state, last.propId)
  /\ ~state.props[last.propId].mortgaged
  /\ state.tx[1].type = "build"
  /\ state.tx[1].propertyId = last.propId
  /\ state.tx[1].note[2] = "No se construye si alguna del grupo esta hipotecada"

\* C16: transferCash with amount 0 returns the state as it was: no balance
\* changes and tx gets no entry.
C16_ZeroTransferIsNoOp ==
  [][(RuleReturned /\ last'.op = "transferCash" /\ last'.amount = Num(0))
       => state' = state]_vars

\* the operator sent amount 0 from one player to another
C16_Witness ==
  /\ HasGame
  /\ raised = "no"
  /\ last.op = "transferCash"
  /\ last.amount = Num(0)
  /\ last.a # last.b
  /\ HasPlayer(state, last.a)
  /\ HasPlayer(state, last.b)

\* this step is transferCash(from, to, a) between two distinct players, with
\* a > 0 an amount clampMoney leaves as it is, and balances that stay within
\* the money limit
PlainTransfer ==
  /\ RuleReturned
  /\ last'.op = "transferCash"
  /\ last'.a # last'.b
  /\ HasPlayer(state, last'.a)
  /\ HasPlayer(state, last'.b)
  /\ last'.amount = Num(clampMoney(last'.amount))
  /\ clampMoney(last'.amount) > 0
  /\ state.players[last'.a].balance - clampMoney(last'.amount) >= -MONEY_LIMIT
  /\ state.players[last'.b].balance + clampMoney(last'.amount) <= MONEY_LIMIT

\* C17: such a transferCash lowers from's balance by a, raises to's balance
\* by a, puts one cash entry with amount a at the head of tx, and leaves
\* every other player, props, bank and auctionQueue as they were.
C17_TransferMovesExactly ==
  [][PlainTransfer
       => LET a == clampMoney(last'.amount)
          IN  /\ DOMAIN state'.players = DOMAIN state.players
              /\ state'.players[last'.a]
                   = [state.players[last'.a] EXCEPT !.balance = @ - a]
              /\ state'.players[last'.b]
                   = [state.players[last'.b] EXCEPT !.balance = @ + a]
              /\ \A k \in DOMAIN state.players \ {last'.a, last'.b} :
                   state'.players[k] = state.players[k]
              /\ Len(state'.tx) = Len(state.tx) + 1
              /\ Tail(state'.tx) = state.tx
              /\ state'.tx[1].type = "cash"
              /\ state'.tx[1].from = last'.a
              /\ state'.tx[1].to = last'.b
              /\ state'.tx[1].amount = Num(a)
              /\ state'.props = state.props
              /\ state'.bank = state.bank
              /\ state'.auctionQueue = state.auctionQueue]_vars

\* starting cash 1500: bo paid al 200, al holds 1700 and bo 1300
C17_Witness ==
  /\ HasGame
  /\ raised = "no"
  /\ last.op = "transferCash"
  /\ last.a = bo
  /\ last.b = al
  /\ last.amount = Num(200)
  /\ HasPlayer(state, al)
  /\ HasPlayer(state, bo)
  /\ state.players[al].balance = 1700
  /\ state.players[bo].balance = 1300
  /\ state.tx[1].type = "cash"

IsSuffix(old, new) ==
  /\ Len(old) <= Len(new)
  /\ SubSeq(new, Len(new) - Len(old) + 1, Len(new)) = old

\* C18: tx is append-only and newest-first: over every operation on the
\* state of a game the tx list before it is a suffix of the tx list after it.
C18_TxAppendOnly ==
  [][(HasGame /\ HasGame') => IsSuffix(state.tx, state'.tx)]_vars

\* a rule put its entry on top of the entry of an earlier REQUEST
C18_Witness ==
  /\ HasGame
  /\ last.op \in RuleOps
  /\ Len(state.tx) >= 2
  /\ "amount" \in DOMAIN state.tx[1]
  /\ state.tx[2].note = <<"Solicitud: PAY ()", "">>

\* this step is the bank processing a HELLO with a name that is not blank,
\* while a game exists
HelloStep ==
  /\ HasGame
  /\ last'.op = "HELLO"
  /\ budget'.msg < budget.msg
  /\ trim(last'.a) # << >>

\* C19: an inbound HELLO is classified against the player map at the time it
\* is processed: normalized key absent gives new, key present with
\* connected = false gives rejoin, key present with connected = true gives
\* duplicate.
C19_HelloClassified ==
  [][HelloStep
       => LET key == normalizeName(trim(last'.a))
              req == pendingJoin'[Len(pendingJoin')]
          IN  /\ pendingJoin' = Append(pendingJoin, req)
              /\ req.connId = last'.connId
              /\ req.name = trim(last'.a)
              /\ ~HasPlayer(state, key) => req.kind = "new"
              /\ (HasPlayer(state, key) /\ ~state.players[key].connected)
                   => req.kind = "rejoin"
              /\ (HasPlayer(state, key) /\ state.players[key].connected)
                   => req.kind = "duplicate"]_vars

\* the name of a player that was approved and then disconnected arrives
\* again and is filed as rejoin
C19_Witness ==
  /\ HasGame
  /\ last.op = "HELLO"
  /\ pendingJoin # << >>
  /\ pendingJoin[Len(pendingJoin)].kind = "rejoin"
  /\ HasPlayer(state, normalizeName(pendingJoin[Len(pendingJoin)].name))
  /\ ~state.players[normalizeName(pendingJoin[Len(pendingJoin)].name)].connected

\* a player was created, or an existing one bound to a connection
CreatedOrRebound(st, nx) ==
  \E k \in DOMAIN nx.players :
    \/ ~HasPlayer(st, k)
    \/ /\ nx.players[k].connId # NULL
       /\ nx.players[k].connId # st.players[k].connId
    \/ nx.players[k].connected /\ ~st.players[k].connected

\* C20: an inbound HELLO by itself never changes GameState; a player is
\* created or rebound only by the operator approving a pending request.
C20_HelloNeverMutates ==
  [][/\ (last'.op = "HELLO" /\ budget'.msg < budget.msg) => state' = state
     /\ (HasGame /\ HasGame' /\ CreatedOrRebound(state, state'))
          => /\ last'.op = "acceptJoin"
             /\ Len(pendingJoin') < Len(pendingJoin)]_vars

\* a HELLO with a new name is pending and its key is no player yet
C20_Witness ==
  /\ HasGame
  /\ last.op = "HELLO"
  /\ pendingJoin # << >>
  /\ pendingJoin[Len(pendingJoin)].kind = "new"
  /\ ~HasPlayer(state, normalizeName(pendingJoin[Len(pendingJoin)].name))

\* this step is the operator approving the i-th pending request, of kind k
Approved(i, k) ==
  /\ HasGame
  /\ i \in 1..Len(pendingJoin)
  /\ pendingJoin[i].kind = k
  /\ last'.op = "acceptJoin"
  /\ last'.connId = pendingJoin[i].connId
  /\ last'.a = pendingJoin[i].name
  /\ pendingJoin' = RemoveAt(pendingJoin, i)

\* C21: approving a request classified rejoin changes only connId, connected
\* and name of the existing player record: its balance and its properties
\* stay, no other player changes and tx gets no entry.
C21_RejoinKeepsRecord ==
  [][\A i \in 1..Len(pendingJoin) :
       Approved(i, "rejoin")
         => LET key == normalizeName(pendingJoin[i].name)
            IN  /\ DOMAIN state'.players = DOMAIN state.players
                /\ \A k \in DOMAIN state.players \ {key} :
                     state'.players[k] = state.players[k]
                /\ HasPlayer(state, key)
                     => state'.players[key]
                          = [state.players[key] EXCEPT
                               !.connId = state'.players[key].connId,
                               !.connected = state'.players[key].connected,
                               !.name = state'.players[key].name]
                /\ state'.props = state.props
                /\ state'.tx = state.tx
                /\ state'.bank = state.bank
                /\ state'.auctionQueue = state.auctionQueue]_vars

\* a player that had been paid 200 and had gone offline is back on another
\* connection with the balance it had
C21_Witness ==
  /\ HasGame
  /\ last.op = "acceptJoin"
  /\ \E k \in DOMAIN state.players :
       /\ state.players[k].connected
       /\ state.players[k].connId = last.connId
       /\ state.players[k].balance = STARTING_CASH + 200
       /\ \E c \in DOMAIN peer :
            c # last.connId /\ peer[c].phase = "closed"

\* u is key followed by the first numeric suffix, from 2 up, that makes a key
\* no player holds
FirstUnusedSuffix(players, key, u) ==
  \E n \in 2..(Cardinality(DOMAIN players) + 2) :
    /\ u = key \o <<" ">> \o NumberText(n)
    /\ u \notin DOMAIN players
    /\ \A m \in 2..(n - 1) : (key \o <<" ">> \o NumberText(m)) \in DOMAIN players

\* the step created exactly one player, under u, fresh and bound to connId
CreatedFresh(st, nx, u, connId) ==
  /\ u \notin DOMAIN st.players
  /\ DOMAIN nx.players = DOMAIN st.players \cup {u}
  /\ nx.players[u].key = u
  /\ nx.players[u].balance = st.startingCash
  /\ nx.players[u].connId = connId
  /\ nx.players[u].connected
  /\ \A k \in DOMAIN st.players : nx.players[k] = st.players[k]

\* C22 as stated: approving a request classified duplicate creates a new
\* player under the normalized name plus the first unused numeric suffix,
\* with balance = startingCash and bound to the requesting connId; the
\* player holding the original key is left as it was.
C22_DuplicateGetsSuffix ==
  [][\A i \in 1..Len(pendingJoin) :
       Approved(i, "duplicate")
         => \E u \in DOMAIN state'.players :
              /\ FirstUnusedSuffix(state.players,
                                   normalizeName(pendingJoin[i].name), u)
              /\ CreatedFresh(state, state', u, pendingJoin[i].connId)]_vars

\* C22 amended: while the requesting connection is still in the registry,
\* the new player's key is the normalized name itself when no player holds
\* it at the time of the approval, and else the name plus the first unused
\* numeric suffix; when the connection has left the registry the approval
\* changes nothing.
C22_DuplicateGetsUnusedKey ==
  [][\A i \in 1..Len(pendingJoin) :
       Approved(i, "duplicate")
         => LET key == normalizeName(pendingJoin[i].name)
            IN  IF pendingJoin[i].connId \in DOMAIN conns
                THEN \E u \in DOMAIN state'.players :
                       /\ IF HasPlayer(state, key)
                          THEN FirstUnusedSuffix(state.players, key, u)
                          ELSE u = key
                       /\ CreatedFresh(state, state', u, pendingJoin[i].connId)
                ELSE state' = state]_vars

\* a second player was admitted under the name of a connected one and holds
\* the key with suffix 2
C22_Witness ==
  /\ HasGame
  /\ last.op = "acceptJoin"
  /\ \E k \in DOMAIN state.players :
       /\ (k \o <<" ", "2">>) \in DOMAIN state.players
       /\ state.players[k \o <<" ", "2">>].connId = last.connId
       /\ state.players[k \o <<" ", "2">>].balance = state.startingCash
       /\ state.players[k].connected
       /\ state.players[k].connId # last.connId

\* this step is the operator rejecting the i-th pending request
Rejected(i) ==
  /\ i \in 1..Len(pendingJoin)
  /\ last'.op = "rejectJoin"
  /\ last'.connId = pendingJoin[i].connId
  /\ last'.a = pendingJoin[i].name
  /\ pendingJoin' = RemoveAt(pendingJoin, i)

\* connection c, and no other, was handed one REJECT with a reason
OneRejectTo(c) ==
  /\ c \in DOMAIN outbox
  /\ Len(outbox'[c]) = Len(outbox[c]) + 1
  /\ SubSeq(outbox'[c], 1, Len(outbox[c])) = outbox[c]
  /\ outbox'[c][Len(outbox'[c])].t = "REJECT"
  /\ outbox'[c][Len(outbox'[c])].reason # ""
  /\ \A d \in DOMAIN outbox \ {c} : outbox'[d] = outbox[d]

\* C23 as stated: rejecting a pending join sends one REJECT with a reason to
\* the requesting connection only, removes the request from the pending list
\* and changes nothing in GameState.
C23_RejectSendsOne ==
  [][\A i \in 1..Len(pendingJoin) :
       Rejected(i) => /\ OneRejectTo(pendingJoin[i].connId)
                      /\ state' = state]_vars

\* C23 amended: the REJECT is sent when the requesting connection is still
\* in the registry; when it has left the registry nothing is sent.  Either
\* way the request leaves the pending list and GameState stays as it was.
C23_RejectSendsOneIfRegistered ==
  [][\A i \in 1..Len(pendingJoin) :
       Rejected(i) => /\ IF pendingJoin[i].connId \in DOMAIN conns
                         THEN OneRejectTo(pendingJoin[i].connId)
                         ELSE outbox' = outbox
                      /\ state' = state]_vars

\* the last message handed to the requesting connection is the operator's
\* REJECT and no request is pending
C23_Witness ==
  /\ HasGame
  /\ last.op = "rejectJoin"
  /\ pendingJoin = << >>
  /\ last.connId \in DOMAIN conns
  /\ outbox[last.connId] # << >>
  /\ outbox[last.connId][Len(outbox[last.connId])]
       = [t |-> "REJECT", reason |-> "Rechazado por el Banco"]

\* this step is the connect event of connection c
Connects(c) ==
  /\ last'.op = "connect"
  /\ last'.connId = c
  /\ c \in DOMAIN conns
  /\ conns[c].status = "waiting_answer"
  /\ conns'[c].status = "connected"

\* C24: when a connection goes from waiting_answer to connected on the
\* transport's connect event, the bank at once sends the current snapshot to
\* that connection.
C24_ConnectPushesSnapshot ==
  [][\A c \in DOMAIN conns :
       (HasGame /\ Connects(c))
         => outbox'[c] = Append(outbox[c], StateMsg(state))]_vars

\* this step is the close event of connection c
Closes(c) ==
  /\ last'.op = "close"
  /\ last'.connId = c
  /\ c \in DOMAIN conns
  /\ peer[c].phase # "closed"
  /\ peer'[c].phase = "closed"

\* C25: when a connection closes it leaves the registry and every player
\* whose connId is that connection gets connected = false and connId = null;
\* players bound to another connection, balances, props, tx, bank and
\* auctionQueue stay as they were.
C25_CloseMarksOffline ==
  [][\A c \in DOMAIN conns :
       Closes(c)
         => /\ DOMAIN conns' = DOMAIN conns \ {c}
            /\ \A d \in DOMAIN conns' : conns'[d] = conns[d]
            /\ HasGame
                 => /\ HasGame'
                    /\ DOMAIN state'.players = DOMAIN state.players
                    /\ \A k \in DOMAIN state.players :
                         state'.players[k]
                           = IF state.players[k].connId = c
                             THEN [state.players[k] EXCEPT !.connected = FALSE,
                                                           !.connId = NULL]
                             ELSE state.players[k]
                    /\ state'.props = state.props
                    /\ state'.tx = state.tx
                    /\ state'.bank = state.bank
                    /\ state'.auctionQueue = state.auctionQueue]_vars

\* one of two connected players went offline with its connection, the other
\* is still bound to its own
C25_Witness ==
  /\ HasGame
  /\ last.op = "close"
  /\ last.connId \notin DOMAIN conns
  /\ \E k \in DOMAIN state.players :
       /\ ~state.players[k].connected
       /\ state.players[k].connId = NULL
  /\ \E k \in DOMAIN state.players :
       /\ state.players[k].connected
       /\ state.players[k].connId \in DOMAIN conns

\* C26: when a connection closes, the snapshot with the updated flags is
\* sent to every other connection that is connected at that moment.
C26_CloseReachesAllConnected ==
  [][\A c \in DOMAIN conns :
       (HasGame /\ Closes(c))
         => \A d \in DOMAIN conns \ {c} :
              conns[d].status = "connected"
                => outbox'[d] = Append(outbox[d], StateMsg(state'))]_vars

StatusRank(status) ==
  CASE status = "creating" -> 1
    [] status = "waiting_answer" -> 2
    [] status = "connected" -> 3

\* C27: the status of a connection only moves forward through creating,
\* waiting_answer, connected, closed (out of the registry): no step takes a
\* connection back, and a connection that left the registry stays out.
C27_StatusOnlyForward ==
  [][\A c \in DOMAIN peer :
       /\ (c \in DOMAIN conns /\ c \in DOMAIN conns')
            => StatusRank(conns'[c].status) >= StatusRank(conns[c].status)
       /\ c \notin DOMAIN conns => c \notin DOMAIN conns']_vars

\* C28: for each connection the remote ANSWER is handed to the transport
\* once: a second scan of an answer for the same connId is not applied.
C28_AnswerAppliedOnce ==
  \A c \in DOMAIN peer : peer[c].answers <= 1

\* C29: decodeQR rejects every text that does not start with the tag PB1:,
\* and does so before it decompresses or parses anything.
C29_UntaggedIsRejected ==
  (last.op = "onScanAnswer" /\ ~startsWith(last.a, QR_PREFIX))
    => /\ ~decodeQR(last.a).ok
       /\ decodeQR(last.a).tried = << >>

\* this step is the bank's data handler running on data that does not parse,
\* or parses to a value without the fields its handler reads
MalformedArrives ==
  /\ last'.op = "data"
  /\ budget'.msg < budget.msg
  /\ ~WellFormed(safeParse(last'.a[1]))

\* C30: an inbound message that fails to parse or lacks the expected fields
\* is dropped silently: no exception is raised, GameState is unchanged and no
\* pending join is queued.
C30_MalformedIsDropped ==
  [][MalformedArrives
       => /\ raised' = raised
          /\ state' = state
          /\ pendingJoin' = pendingJoin]_vars


\* this step is the operator's call of doMortgage on the current game
MortgageCalled ==
  /\ HasGame
  /\ last'.op = "doMortgage"
  /\ budget'.rule < budget.rule

\* the three conditions under which a mortgage is allowed
MortgageAllowed(st, p) ==
  /\ st.props[p].owner # NULL
  /\ ~st.props[p].mortgaged
  /\ getDef(p).kind = "street"
       => \A i \in 1..Len(groupProps(groupOf(p))) :
            st.props[groupProps(groupOf(p))[i]].buildings = 0

\* the call returned and its audit entry is the one of a mortgage taken
MortgageTaken ==
  /\ raised' = "no"
  /\ Len(state'.tx) > 0
  /\ state'.tx[1].type = "mortgage"
  /\ state'.tx[1].note = <<"Hipoteca", "">>

\* p is mortgaged, its owner has floor(price/2) more, nothing else moved
MortgageEffect(st, nx, p) ==
  /\ nx.props = [st.props EXCEPT ![p].mortgaged = TRUE]
  /\ nx.players
       = [st.players EXCEPT ![st.props[p].owner].balance
                              = @ + FloorHalf(getDef(p).price)]
  /\ nx.bank = st.bank
  /\ nx.auctionQueue = st.auctionQueue

\* C31: doMortgage(p) succeeds exactly when p has an owner, is not mortgaged
\* and, for a street, no property of its color group has a building; on
\* success p is mortgaged, the owner has exactly floor(price/2) more and no
\* other property or player changes.
C31_MortgageExactlyWhenAllowed ==
  [][MortgageCalled
       => /\ MortgageTaken <=> MortgageAllowed(state, last'.propId)
          /\ MortgageTaken => MortgageEffect(state, state', last'.propId)]_vars


\* this step is a doBuild that returned with the audit entry of a purchase
BuildDone ==
  /\ RuleReturned
  /\ last'.op = "doBuild"
  /\ budget'.rule < budget.rule
  /\ state'.tx[1].type = "build"
  /\ state'.tx[1].note[1] \in {"Compra de casa", "Compra de hotel"}

\* what a build needs of the state it is applied to
BuildRequirements(st, p) ==
  LET owner == st.props[p].owner
      ids == groupProps(groupOf(p))
  IN  /\ owner # NULL
      /\ \A i \in 1..Len(ids) :
           st.props[ids[i]].owner = owner /\ ~st.props[ids[i]].mortgaged
      /\ st.props[p].buildings < 5
      /\ IF st.props[p].buildings = 4 THEN st.bank.hotelsAvailable >= 1
                                      ELSE st.bank.housesAvailable >= 1
      /\ HasPlayer(st, owner)
      /\ st.players[owner].balance >= BUILD_COST_BY_GROUP(groupOf(p))

\* C32: a successful doBuild(p) implies that before the call p's owner owned
\* every street of the color group, no member of the group was mortgaged,
\* p's level was below 5, the bank had the unit needed (a house, or a hotel
\* for level 4 to 5) and the owner's balance was at least the group's build
\* cost; after it the owner's balance is lower by exactly that cost and is
\* not negative.
C32_BuildPreconditions ==
  [][BuildDone
       => /\ BuildRequirements(state, last'.propId)
          /\ state'.players[state.props[last'.propId].owner].balance
               = state.players[state.props[last'.propId].owner].balance
                   - BUILD_COST_BY_GROUP(groupOf(last'.propId))
          /\ state'.players[state.props[last'.propId].owner].balance >= 0]_vars

\* a hotel was just bought: level 5, the fifth purchase on this street
C32_Witness ==
  /\ HasGame
  /\ raised = "no"
  /\ last.op = "doBuild"
  /\ state.tx[1].note = <<"Compra de hotel", "">>
  /\ state.tx[1].propertyId = last.propId
  /\ state.props[last.propId].buildings = 5
  /\ state.players[state.props[last.propId].owner].balance >= 0


\* this step is a doSellBuilding that returned with the audit entry of a sale
SaleDone ==
  /\ RuleReturned
  /\ last'.op = "doSellBuilding"
  /\ budget'.rule < budget.rule
  /\ state'.tx[1].type = "sell_build"
  /\ state'.tx[1].note = <<"Venta de edificio (Banco paga la mitad)", "">>

\* p has a building and no street of its group stands higher
SaleRequirements(st, p) ==
  /\ st.props[p].buildings > 0
  /\ \A i \in 1..Len(groupProps(groupOf(p))) :
       st.props[groupProps(groupOf(p))[i]].buildings <= st.props[p].buildings

\* C33 as stated: doSellBuilding(p) succeeds only when p has buildings > 0 and
\* p's level is the maximum of its color group; on success p's level is lower
\* by exactly 1 and p's owner has exactly floor(groupBuildCost/2) more.
C33_SellBuildingEffect ==
  [][SaleDone
       => /\ SaleRequirements(state, last'.propId)
          /\ state'.props[last'.propId].buildings
               = state.props[last'.propId].buildings - 1
          /\ state'.players[state.props[last'.propId].owner].balance
               = state.players[state.props[last'.propId].owner].balance
                   + FloorHalf(BUILD_COST_BY_GROUP(groupOf(last'.propId)))]_vars

\* C33 amended: the same, the owner's new balance being the old one plus
\* floor(groupBuildCost/2), capped at MONEY_LIMIT.
C33_SellBuildingEffectCapped ==
  [][SaleDone
       => /\ SaleRequirements(state, last'.propId)
          /\ state'.props[last'.propId].buildings
               = state.props[last'.propId].buildings - 1
          /\ state'.players[state.props[last'.propId].owner].balance
               = Min2(MONEY_LIMIT,
                      state.players[state.props[last'.propId].owner].balance
                        + FloorHalf(BUILD_COST_BY_GROUP(groupOf(last'.propId))))]_vars

\* a house was just sold from a street that stood at the top of its group,
\* and the other street of the group still has a building
C33_Witness ==
  /\ HasGame
  /\ raised = "no"
  /\ last.op = "doSellBuilding"
  /\ state.tx[1].note = <<"Venta de edificio (Banco paga la mitad)", "">>
  /\ state.tx[1].propertyId = last.propId
  /\ \E i \in 1..Len(groupProps(groupOf(last.propId))) :
       state.props[groupProps(groupOf(last.propId))[i]].buildings
         > state.props[last.propId].buildings


\* this step is auctionSellTo for a property and a winner that exist
AuctionStep ==
  /\ RuleReturned
  /\ last'.op = "auctionSellTo"
  /\ budget'.rule < budget.rule
  /\ HasProp(state, last'.propId)
  /\ HasPlayer(state, last'.a)

\* seq without its entries equal to x, the others in their order
Without(seq, x) ==
  LET keep == {i \in 1..Len(seq) : seq[i] # x}
      nth(k) == CHOOSE i \in keep : Cardinality({j \in keep : j < i}) = k - 1
  IN  [k \in 1..Cardinality(keep) |-> seq[nth(k)]]

\* C34: auctionSellTo(p, w, price) for an existing property p and an existing
\* player w debits w by price, makes w the owner of p with mortgaged = false
\* and buildings = 0, and leaves auctionQueue as the previous queue without
\* any occurrence of p, the other ids in their order; a queue that did not
\* hold p is unchanged.
C34_AuctionSellToEffect ==
  [][AuctionStep
       => /\ 2 * state'.players[last'.a].balance
               = 2 * state.players[last'.a].balance - last'.amount.twice
          /\ state'.props[last'.propId]
               = [state.props[last'.propId] EXCEPT
                    !.owner = last'.a, !.mortgaged = FALSE, !.buildings = 0]
          /\ state'.auctionQueue = Without(state.auctionQueue, last'.propId)
          /\ (\A i \in 1..Len(state.auctionQueue) :
                state.auctionQueue[i] # last'.propId)
               => state'.auctionQueue = state.auctionQueue]_vars


IsPrefix(old, new) ==
  /\ Len(old) <= Len(new)
  /\ SubSeq(new, 1, Len(old)) = old

\* what this step put into the outbox of connection c
SentNow(c) ==
  IF c \in DOMAIN outbox
  THEN SubSeq(outbox'[c], Len(outbox[c]) + 1, Len(outbox'[c]))
  ELSE outbox'[c]

\* C35: every STATE snapshot put on a connection is the state the bank holds
\* after the complete operation that produced it, never a state between the
\* building sales, property transfers and cash transfer of a bankruptcy (the
\* newest audit entry of a snapshot sent by a bankruptcy is the closing
\* bankruptcy_player entry), and the snapshots of a connection stay in the
\* order in which they were made: a step only appends to what the connection
\* was sent before.
C35_SnapshotsWholeAndInOrder ==
  [][\A c \in DOMAIN outbox' :
       /\ c \in DOMAIN outbox => IsPrefix(outbox[c], outbox'[c])
       /\ \A i \in 1..Len(SentNow(c)) :
            SentNow(c)[i].t = "STATE"
              => /\ SentNow(c)[i].state = state'
                 /\ (last'.op = "declareBankruptcyToPlayer" /\ state' # state)
                      => Head(state'.tx).type = "bankruptcy_player"]_vars

\* a connection was sent two snapshots, the later one by a bankruptcy in
\* which a building was sold and a property changed hands
C35_Witness ==
  /\ HasGame
  /\ last.op = "declareBankruptcyToPlayer"
  /\ \E c \in DOMAIN outbox :
       /\ Len(outbox[c]) >= 2
       /\ outbox[c][Len(outbox[c])] = StateMsg(state)
       /\ outbox[c][Len(outbox[c]) - 1].t = "STATE"
       /\ outbox[c][Len(outbox[c]) - 1].state # state
  /\ Len(state.tx) >= 3
  /\ Head(state.tx).type = "bankruptcy_player"
  /\ \E i \in 2..Len(state.tx) :
       state.tx[i].note = <<"Liquidacion por bancarrota (edificios)", "">>
  /\ \E i \in 2..Len(state.tx) :
       state.tx[i].note = <<"Transferencia por bancarrota", "">>


\* this step is the operator approving a pending request
ApprovedAny ==
  /\ HasGame
  /\ last'.op = "acceptJoin"
  /\ Len(pendingJoin') < Len(pendingJoin)

\* C36: approving a pending join never changes the balance of a player that
\* is already in the player map and never rebinds the connId of a player
\* that is connected, whatever was queued or changed since the HELLO.
C36_ApprovalSparesExistingPlayers ==
  [][ApprovedAny
       => \A k \in DOMAIN state.players :
            /\ state'.players[k].balance = state.players[k].balance
            /\ state.players[k].connected
                 => state'.players[k].connId = state.players[k].connId]_vars


\* C37: in every state of the bank a player has connected = true exactly when
\* its connId is not null, and that connId names a connection of the registry
\* whose status is connected; also in a state restored from the snapshot that
\* was persisted.
C37_ConnectedMeansRegistered ==
  HasGame
    => \A k \in DOMAIN state.players :
         /\ state.players[k].connected <=> state.players[k].connId # NULL
         /\ state.players[k].connId # NULL
              => /\ state.players[k].connId \in DOMAIN conns
                 /\ conns[state.players[k].connId].status = "connected"


\* C38: in every state every property owner other than null is a key of the
\* player map, after any transferProperty, bankruptcy (debtor = creditor
\* included) and auction.
C38_OwnersArePlayers ==
  HasGame
    => \A p \in DOMAIN state.props :
         state.props[p].owner # NULL => HasPlayer(state, state.props[p].owner)


\* C39: in every state the bank's housesAvailable is within 0 .. 32 and its
\* hotelsAvailable within 0 .. 12, the pool the game starts with, after any
\* builds, sales, bankruptcies and auctions.
C39_InventoryInRange ==
  HasGame
    => /\ state.bank.housesAvailable \in 0..HOUSES_INITIAL
       /\ state.bank.hotelsAvailable \in 0..HOTELS_INITIAL


\* C40: in every state every id of auctionQueue names a property whose owner
\* is null: a property that is given an owner, by transferProperty or by
\* auctionSellTo, is no longer waiting in the queue.
C40_QueuedHasNoOwner ==
  HasGame
    => \A i \in 1..Len(state.auctionQueue) :
         state.props[state.auctionQueue[i]].owner = NULL

=============================================================================
